---- MODULE Spec2Model ----
(***************************************************************************)
(* Verification model of the captum attribution algorithms:                *)
(*   - the hook / attribute / requires_grad life cycle of one attribute()  *)
(*     call (DeepLift, DeepLiftShap, Saliency, NeuronGradient,             *)
(*     IntegratedGradients, InternalInfluence, NeuronConductance);         *)
(*   - the numeric kernels (Rescale rule, DeepLiftShap expansion and mean, *)
(*     the IntegratedGradients quadrature and convergence delta, result    *)
(*     shapes), as pure functions over small bounded tensors.              *)
(***************************************************************************)
EXTENDS Integers, Sequences, FiniteSets, TLC

VARIABLES
    net,        \* the layers (sub-modules) of the model under attribution
    reqGrad,    \* requires_grad flag of every caller-owned input tensor
    hooks,      \* per layer: the registered forward / backward hooks
    attrs,      \* per layer: the attributes injected on the module object
    handles,    \* DeepLift.forward_handles and DeepLift.backward_handles
    pc,         \* position inside the running attribute() call
    algo,       \* the algorithm whose attribute() is running
    calls,      \* number of attribute() calls started so far
    call,       \* per-call bookkeeping (arguments, saved mask, history)
    num         \* the numeric kernel under evaluation (pure-function checks)

vars == <<net, reqGrad, hooks, attrs, handles, pc, algo, calls, call, num>>
lifeVars == <<net, reqGrad, hooks, attrs, handles, pc, algo, calls, call>>

(***************************************************************************)
(* Bounds                                                                  *)
(***************************************************************************)
MaxCalls == 2
NumTensors == 2

Tensors == 1..NumTensors

(***************************************************************************)
(* The model under attribution: a catalogue of layers.                     *)
(*   seq     Sequential container holding lin and relu                     *)
(*   lin     Linear                                                        *)
(*   relu    ReLU, executed by forward(), on the path to the target        *)
(*   pool    MaxPool1d, executed, on the path to the target                *)
(*   side    Sigmoid, executed, but no gradient of the target reaches it   *)
(*   softmax Softmax, executed, on the path to the target                  *)
(*   aux     ReLU registered as a child but never called by forward()      *)
(***************************************************************************)
Layers == {"seq", "lin", "relu", "pool", "side", "softmax", "aux"}
CoreLayers == {"seq", "lin", "relu"}
OptionalLayers == {"pool", "side", "softmax", "aux"}

Kind ==
    [seq |-> "Sequential", lin |-> "Linear", relu |-> "ReLU",
     pool |-> "MaxPool1d", side |-> "Sigmoid", softmax |-> "Softmax",
     aux |-> "ReLU"]

\* Order in which forward() applies the layers it calls.
ForwardOrder == <<"seq", "lin", "relu", "pool", "side", "softmax">>
\* Layers the gradient of the target flows through, in backward order.
BackwardOrder == <<"softmax", "pool", "relu", "lin", "seq">>

AttrNames == {"input", "output", "input_ref", "output_ref", "ref_handle"}
SnapshotAttrs == {"input", "output", "input_ref", "output_ref"}
NoAttr == [call |-> 0, pass |-> "none"]

\* keys of SUPPORTED_NON_LINEAR
SUPPORTED_NON_LINEAR ==
    {"ReLU", "Elu", "LeakyReLU", "Sigmoid", "Tanh", "Softplus",
     "MaxPool1d", "MaxPool2d", "MaxPool3d", "Softmax"}

MaxPoolKinds == {"MaxPool1d", "MaxPool2d", "MaxPool3d"}

\* "nn.modules.container" in str(type(module)), by class name
IsContainerType(t) == t \in {"Sequential", "ModuleList", "ModuleDict"}

\* module._get_name() in SUPPORTED_NON_LINEAR.keys()
IsNonLinearType(t) == t \in SUPPORTED_NON_LINEAR

\* "nn.modules.container" in str(type(module))
IsContainer(l) == IsContainerType(Kind[l])

\* DeepLift._is_non_linear
IsNonLinear(l) == IsNonLinearType(Kind[l])

Hook(k, c) == [kind |-> k, call |-> c]
Handle(l, k, c) == [layer |-> l, kind |-> k, call |-> c]

HooksOfKind(hk, l, k) == {h \in hk[l] : h.kind = k}

\* has_already_hooks = len(module._backward_hooks) > 0
HasAlreadyHooks(hk, l) == HooksOfKind(hk, l, "bwd") # {}

\* the early return of DeepLift._register_hooks
Eligible(hk, l) == ~IsContainer(l) /\ ~HasAlreadyHooks(hk, l) /\ IsNonLinear(l)

SeqFilter(s, S) == SelectSeq(s, LAMBDA x : x \in S)

(***************************************************************************)
(* Hook machinery.  A pass state is a record [hooks, attrs, err]: the      *)
(* registered hooks, the injected attributes, and whether the pass raised. *)
(***************************************************************************)
PassState(hk, at) == [hooks |-> hk, attrs |-> at, err |-> FALSE]

Snap(c, pass) == [call |-> c, pass |-> pass]

SetAttrs(at, l, names, v) ==
    [at EXCEPT ![l] = [a \in AttrNames |-> IF a \in names THEN v ELSE @[a]]]

\* DeepLift._forward_hook_ref (with _detach_tensors): store the reference
\* snapshot, remove the hook module.ref_handle points to, delete ref_handle.
\* Reading module.ref_handle when it is absent raises AttributeError.
ForwardHookRef(st, l, c, pass) ==
    LET snapped == SetAttrs(st.attrs, l, {"input_ref", "output_ref"}, Snap(c, pass))
        rh == st.attrs[l]["ref_handle"]
    IN  IF rh = NoAttr
        THEN [st EXCEPT !.attrs = snapped, !.err = TRUE]
        ELSE [st EXCEPT
                !.hooks = [@ EXCEPT ![l] = @ \ {Hook("ref", rh.call)}],
                !.attrs = SetAttrs(snapped, l, {"ref_handle"}, NoAttr),
                \* a second reference hook on the same module is reached after
                \* the hook table changed and ref_handle is gone: the pass raises
                !.err = Cardinality(HooksOfKind(st.hooks, l, "ref")) > 1]

\* DeepLift._forward_hook (with _detach_tensors)
ForwardHook(st, l, c, pass) ==
    [st EXCEPT !.attrs = SetAttrs(@, l, {"input", "output"}, Snap(c, pass))]

\* Module.__call__ on layer l: the registered forward hooks fire in
\* registration order (reference hooks were registered first).
CallLayer(st, l, c, pass) ==
    LET afterRef == IF HooksOfKind(st.hooks, l, "ref") # {}
                    THEN ForwardHookRef(st, l, c, pass) ELSE st
    IN  IF afterRef.err \/ HooksOfKind(afterRef.hooks, l, "fwd") = {}
        THEN afterRef
        ELSE ForwardHook(afterRef, l, c, pass)

\* maxpool() reads module.input[0] after _backward_hook deleted module.input
MaxPoolRule(st, l) == [st EXCEPT !.err = st.attrs[l]["input"] = NoAttr]

\* nonlinear() and softmax() read only their arguments
ElementwiseRule(st, l) == st

\* DeepLift._backward_hook: needs the four snapshots, deletes them, then
\* dispatches on the module name.
BackwardHook(st, l) ==
    IF \E a \in SnapshotAttrs : st.attrs[l][a] = NoAttr
    THEN [st EXCEPT !.err = TRUE]
    ELSE LET cleared == [st EXCEPT !.attrs = SetAttrs(@, l, SnapshotAttrs, NoAttr)]
         IN  IF Kind[l] \in MaxPoolKinds
             THEN MaxPoolRule(cleared, l)
             ELSE ElementwiseRule(cleared, l)

\* autograd reaching layer l: its registered backward hook fires
BackLayer(st, l) ==
    IF HooksOfKind(st.hooks, l, "bwd") = {} THEN st ELSE BackwardHook(st, l)

RECURSIVE RunForward(_, _, _, _, _)
\* forward_func(...): the first n layers of order are called; stops at a raise
RunForward(st, order, n, c, pass) ==
    IF n = 0 \/ st.err THEN st
    ELSE LET before == RunForward(st, order, n - 1, c, pass)
         IN  IF before.err THEN before ELSE CallLayer(before, order[n], c, pass)

RECURSIVE RunBackward(_, _, _)
\* the backward pass through the first n layers of order
RunBackward(st, order, n) ==
    IF n = 0 \/ st.err THEN st
    ELSE LET before == RunBackward(st, order, n - 1)
         IN  IF before.err THEN before ELSE BackLayer(before, order[n])

ExecOrder(nt) == SeqFilter(ForwardOrder, nt)
GradOrder(nt) == SeqFilter(BackwardOrder, nt)

\* some paired (forward or backward) DeepLift interceptor is attached
PairedAttached(hk) == \E l \in Layers : \E h \in hk[l] : h.kind \in {"fwd", "bwd"}

\* DeepLift._traverse_modules(self.model, self._register_hooks, "ref")
RegisterRefHooks(hk, at, nt, c) ==
    LET el == {l \in nt : Eligible(hk, l)}
    IN  [hooks |-> [l \in Layers |->
                      IF l \in el THEN hk[l] \cup {Hook("ref", c)} ELSE hk[l]],
         attrs |-> [l \in Layers |->
                      IF l \in el
                      THEN [at[l] EXCEPT !["ref_handle"] = Snap(c, "handle")]
                      ELSE at[l]]]

\* DeepLift._traverse_modules(self.model, self._register_hooks)
RegisterHooks(hk, hd, nt, c) ==
    LET el == {l \in nt : Eligible(hk, l)}
    IN  [hooks |-> [l \in Layers |->
                      IF l \in el
                      THEN hk[l] \cup {Hook("fwd", c), Hook("bwd", c)}
                      ELSE hk[l]],
         handles |-> hd \cup {Handle(l, "fwd", c) : l \in el}
                        \cup {Handle(l, "bwd", c) : l \in el}]

\* DeepLift._remove_hooks: remove() on every handle ever appended
RemoveHooks(hk, hd) ==
    [l \in Layers |-> hk[l] \ {Hook(h.kind, h.call) : h \in {x \in hd : x.layer = l}}]

\* apply_gradient_requirements: returns the mask, sets every flag
ApplyGradientRequirements(rg) == [t \in Tensors |-> TRUE]

\* undo_gradient_requirements: clears the flag where the mask says it was clear
UndoGradientRequirements(rg, mask) == [t \in Tensors |-> IF mask[t] THEN rg[t] ELSE FALSE]

(***************************************************************************)
(* The attribute() life cycle.                                             *)
(***************************************************************************)
Rest == {"idle", "returned", "raised"}

NoHooks == [l \in Layers |-> {}]
NoAttrs == [l \in Layers |-> [a \in AttrNames |-> NoAttr]]

NewCall(mm) ==
    [mismatch |-> mm, mask |-> reqGrad, preHooks |-> hooks, preAttrs |-> attrs,
     preGrad |-> reqGrad, hist |-> <<>>, fwdRuns |-> 0, strayFwd |-> 0]

Log(cl, ev) == [cl EXCEPT !.hist = Append(@, ev)]

\* one more model forward evaluation; stray when it is not the hooked forward
\* pass and paired interceptors are attached while it runs
CountForward(cl, ev, hk) ==
    [cl EXCEPT !.hist = Append(@, ev),
               !.fwdRuns = @ + 1,
               !.strayFwd = IF ev # "forward" /\ PairedAttached(hk) THEN @ + 1 ELSE @]

FullLen == Len(ExecOrder(net))
GradLen == Len(GradOrder(net))

Fwd(hk, at, n, pass) == RunForward(PassState(hk, at), ExecOrder(net), n, calls, pass)
Bwd(hk, at, n) == RunBackward(PassState(hk, at), GradOrder(net), n)

Start(a) ==
    /\ pc \in Rest
    /\ calls < MaxCalls
    /\ calls' = calls + 1
    /\ algo' = a

\* DeepLift.attribute lines 127-134 (DeepLiftShap.attribute lines 365-390
\* expands into fresh tensors first, so the caller's flags are not touched)
DLBegin(a, mm) ==
    /\ Start(a)
    /\ LET reg == RegisterRefHooks(hooks, attrs, net, calls + 1)
       IN  /\ hooks' = reg.hooks
           /\ attrs' = reg.attrs
    /\ reqGrad' = IF a = "DeepLift" THEN ApplyGradientRequirements(reqGrad) ELSE reqGrad
    /\ call' = Log(Log(NewCall(mm), "apply_grad"), "ref_hooks")
    /\ pc' = "dl_reference"
    /\ UNCHANGED <<net, handles, num>>

\* DeepLift.attribute line 136: self.forward_func(*baselines)
DLReferenceForward ==
    /\ pc = "dl_reference"
    /\ \E n \in 0..FullLen :
          LET st == Fwd(hooks, attrs, n, "baseline")
          IN  /\ hooks' = st.hooks
              /\ attrs' = st.attrs
              /\ pc' = IF st.err \/ n < FullLen THEN "raised" ELSE "dl_validate"
    /\ call' = CountForward(call, "ref_forward", hooks)
    /\ UNCHANGED <<net, reqGrad, handles, algo, calls, num>>

\* DeepLift.attribute line 138: validate_input(inputs, baselines)
DLValidate ==
    /\ pc = "dl_validate"
    /\ pc' = IF call.mismatch THEN "raised" ELSE "dl_register"
    /\ call' = Log(call, "validate")
    /\ UNCHANGED <<net, reqGrad, hooks, attrs, handles, algo, calls, num>>

\* DeepLift.attribute line 141
DLRegisterHooks ==
    /\ pc = "dl_register"
    /\ LET reg == RegisterHooks(hooks, handles, net, calls)
       IN  /\ hooks' = reg.hooks
           /\ handles' = reg.handles
    /\ call' = Log(call, "hooks")
    /\ pc' = "dl_forward"
    /\ UNCHANGED <<net, reqGrad, attrs, algo, calls, num>>

\* gradient_func, first half: the hooked forward pass and the target selection
DLForward ==
    /\ pc = "dl_forward"
    /\ \E n \in 0..FullLen, targetOk \in BOOLEAN :
          LET st == Fwd(hooks, attrs, n, "input")
          IN  /\ hooks' = st.hooks
              /\ attrs' = st.attrs
              /\ pc' = IF st.err \/ n < FullLen \/ ~targetOk
                       THEN "raised" ELSE "dl_backward"
    /\ call' = CountForward(call, "forward", hooks)
    /\ UNCHANGED <<net, reqGrad, handles, algo, calls, num>>

\* gradient_func, second half: the backward pass (then lines 148-151)
DLBackward ==
    /\ pc = "dl_backward"
    /\ \E n \in 0..GradLen :
          LET st == Bwd(hooks, attrs, n)
          IN  /\ hooks' = st.hooks
              /\ attrs' = st.attrs
              /\ pc' = IF st.err \/ n < GradLen THEN "raised" ELSE "dl_remove"
    /\ call' = Log(call, "backward")
    /\ UNCHANGED <<net, reqGrad, handles, algo, calls, num>>

\* DeepLift.attribute line 154
DLRemoveHooks ==
    /\ pc = "dl_remove"
    /\ hooks' = RemoveHooks(hooks, handles)
    /\ call' = Log(call, "remove")
    /\ pc' = "dl_delta"
    /\ UNCHANGED <<net, reqGrad, attrs, handles, algo, calls, num>>

\* _compute_convergence_delta: forward on the baselines, then on the inputs
ConvergenceDelta(next) ==
    \E n1 \in 0..FullLen, n2 \in 0..FullLen :
       /\ n1 < FullLen => n2 = 0
       /\ LET s1 == Fwd(hooks, attrs, n1, "delta")
              ran2 == ~s1.err /\ n1 = FullLen
              s2 == IF ran2 THEN Fwd(s1.hooks, s1.attrs, n2, "delta") ELSE s1
              c1 == CountForward(call, "delta_forward", hooks)
          IN  /\ hooks' = s2.hooks
              /\ attrs' = s2.attrs
              /\ call' = IF ran2 THEN CountForward(c1, "delta_forward", s1.hooks) ELSE c1
              /\ pc' = IF s2.err \/ n1 < FullLen \/ n2 < FullLen THEN "raised" ELSE next

\* DeepLift.attribute lines 159-165
DLConvergenceDelta ==
    /\ pc = "dl_delta"
    /\ ConvergenceDelta("dl_undo")
    /\ UNCHANGED <<net, reqGrad, handles, algo, calls, num>>

\* DeepLift.attribute lines 166-167
DLReturn ==
    /\ pc = "dl_undo"
    /\ reqGrad' = IF algo = "DeepLift"
                  THEN UndoGradientRequirements(reqGrad, call.mask) ELSE reqGrad
    /\ call' = Log(call, "undo_grad")
    /\ pc' = IF algo = "DeepLiftShap" THEN "shap_reduce" ELSE "returned"
    /\ UNCHANGED <<net, hooks, attrs, handles, algo, calls, num>>

\* DeepLiftShap.attribute lines 397-413: the mean, then its own delta
ShapReduce ==
    /\ pc = "shap_reduce"
    /\ ConvergenceDelta("returned")
    /\ UNCHANGED <<net, reqGrad, handles, algo, calls, num>>

\* compute_gradients / compute_layer_gradients_and_eval: one forward pass,
\* the target selection, one backward pass
GradientPass(ev, next) ==
    \E n \in 0..FullLen, targetOk \in BOOLEAN, m \in 0..GradLen :
       /\ (n < FullLen \/ ~targetOk) => m = 0
       /\ LET s1 == Fwd(hooks, attrs, n, "input")
              back == ~s1.err /\ n = FullLen /\ targetOk
              s2 == IF back THEN Bwd(s1.hooks, s1.attrs, m) ELSE s1
              c1 == CountForward(call, ev, hooks)
          IN  /\ hooks' = s2.hooks
              /\ attrs' = s2.attrs
              /\ call' = IF back THEN Log(c1, "backward") ELSE c1
              /\ pc' = IF s2.err \/ ~back \/ m < GradLen THEN "raised" ELSE next

\* torch.autograd.grad of the selected neuron: indexing may raise, then backward
NeuronPass(next) ==
    \E indexOk \in BOOLEAN, m \in 0..GradLen :
       /\ ~indexOk => m = 0
       /\ LET s == IF indexOk THEN Bwd(hooks, attrs, m) ELSE PassState(hooks, attrs)
          IN  /\ hooks' = s.hooks
              /\ attrs' = s.attrs
              /\ call' = Log(call, IF indexOk THEN "neuron_backward" ELSE "index_error")
              /\ pc' = IF s.err \/ ~indexOk \/ m < GradLen THEN "raised" ELSE next

\* Saliency.attribute lines 85-88
SaliencyBegin ==
    /\ Start("Saliency")
    /\ reqGrad' = ApplyGradientRequirements(reqGrad)
    /\ call' = Log(NewCall(FALSE), "apply_grad")
    /\ pc' = "sal_gradient"
    /\ UNCHANGED <<net, hooks, attrs, handles, num>>

\* Saliency.attribute lines 92-98
SaliencyGradient ==
    /\ pc = "sal_gradient"
    /\ GradientPass("plain_forward", "sal_undo")
    /\ UNCHANGED <<net, reqGrad, handles, algo, calls, num>>

\* Saliency.attribute lines 99-100
SaliencyReturn ==
    /\ pc = "sal_undo"
    /\ reqGrad' = UndoGradientRequirements(reqGrad, call.mask)
    /\ call' = Log(call, "undo_grad")
    /\ pc' = "returned"
    /\ UNCHANGED <<net, hooks, attrs, handles, algo, calls, num>>

\* NeuronGradient.attribute lines 91-96
NGBegin ==
    /\ Start("NeuronGradient")
    /\ reqGrad' = ApplyGradientRequirements(reqGrad)
    /\ call' = Log(NewCall(FALSE), "apply_grad")
    /\ pc' = "ng_eval"
    /\ UNCHANGED <<net, hooks, attrs, handles, num>>

\* NeuronGradient.attribute lines 98-100: _forward_layer_eval
NGLayerEval ==
    /\ pc = "ng_eval"
    /\ \E n \in 0..FullLen :
          LET st == Fwd(hooks, attrs, n, "input")
          IN  /\ hooks' = st.hooks
              /\ attrs' = st.attrs
              /\ pc' = IF st.err \/ n < FullLen THEN "raised" ELSE "ng_grad"
    /\ call' = CountForward(Log(call, "layer_hook"), "plain_forward", hooks)
    /\ UNCHANGED <<net, reqGrad, handles, algo, calls, num>>

\* NeuronGradient.attribute lines 101-105
NGNeuronGrad ==
    /\ pc = "ng_grad"
    /\ NeuronPass("ng_undo")
    /\ UNCHANGED <<net, reqGrad, handles, algo, calls, num>>

\* NeuronGradient.attribute lines 107-108
NGReturn ==
    /\ pc = "ng_undo"
    /\ reqGrad' = UndoGradientRequirements(reqGrad, call.mask)
    /\ call' = Log(call, "undo_grad")
    /\ pc' = "returned"
    /\ UNCHANGED <<net, hooks, attrs, handles, algo, calls, num>>

\* _format_input_baseline, then validate_input before anything else
ValidateFirst(a, mm, next) ==
    /\ Start(a)
    /\ call' = Log(NewCall(mm), "validate")
    /\ pc' = IF mm THEN "raised" ELSE next
    /\ UNCHANGED <<net, reqGrad, hooks, attrs, handles, num>>

\* IntegratedGradients.attribute lines 113-121
IGBegin(mm) == ValidateFirst("IntegratedGradients", mm, "ig_gradient")

\* IntegratedGradients.attribute lines 125-173 (on the scaled features)
IGGradient ==
    /\ pc = "ig_gradient"
    /\ GradientPass("plain_forward", "ig_delta")
    /\ UNCHANGED <<net, reqGrad, handles, algo, calls, num>>

\* IntegratedGradients.attribute lines 175-186
IGDelta ==
    /\ pc = "ig_delta"
    /\ ConvergenceDelta("returned")
    /\ UNCHANGED <<net, reqGrad, handles, algo, calls, num>>

\* InternalInfluence.attribute lines 126-131
IIBegin(mm) == ValidateFirst("InternalInfluence", mm, "ii_gradient")

\* InternalInfluence.attribute lines 134-172
IILayerGradient ==
    /\ pc = "ii_gradient"
    /\ GradientPass("layer_forward", "returned")
    /\ UNCHANGED <<net, reqGrad, handles, algo, calls, num>>

\* NeuronConductance.attribute lines 132-142
NCBegin(mm) == ValidateFirst("NeuronConductance", mm, "nc_gradient")

\* NeuronConductance.attribute lines 145-174
NCLayerGradient ==
    /\ pc = "nc_gradient"
    /\ GradientPass("layer_forward", "nc_neuron")
    /\ UNCHANGED <<net, reqGrad, handles, algo, calls, num>>

\* NeuronConductance.attribute lines 176-215
NCNeuronGrad ==
    /\ pc = "nc_neuron"
    /\ NeuronPass("returned")
    /\ UNCHANGED <<net, reqGrad, handles, algo, calls, num>>

NoNum == [kernel |-> "none"]

Init ==
    /\ net \in {CoreLayers \cup opt : opt \in SUBSET OptionalLayers}
    /\ reqGrad \in [Tensors -> BOOLEAN]
    /\ hooks = NoHooks
    /\ attrs = NoAttrs
    /\ handles = {}
    /\ pc = "idle"
    /\ algo = "none"
    /\ calls = 0
    /\ call = [mismatch |-> FALSE, mask |-> reqGrad, preHooks |-> hooks,
               preAttrs |-> attrs, preGrad |-> reqGrad, hist |-> <<>>,
               fwdRuns |-> 0, strayFwd |-> 0]
    /\ num = NoNum

Next ==
    \/ \E a \in {"DeepLift", "DeepLiftShap"}, mm \in BOOLEAN : DLBegin(a, mm)
    \/ DLReferenceForward
    \/ DLValidate
    \/ DLRegisterHooks
    \/ DLForward
    \/ DLBackward
    \/ DLRemoveHooks
    \/ DLConvergenceDelta
    \/ DLReturn
    \/ ShapReduce
    \/ SaliencyBegin
    \/ SaliencyGradient
    \/ SaliencyReturn
    \/ NGBegin
    \/ NGLayerEval
    \/ NGNeuronGrad
    \/ NGReturn
    \/ \E mm \in BOOLEAN : IGBegin(mm)
    \/ IGGradient
    \/ IGDelta
    \/ \E mm \in BOOLEAN : IIBegin(mm)
    \/ IILayerGradient
    \/ \E mm \in BOOLEAN : NCBegin(mm)
    \/ NCLayerGradient
    \/ NCNeuronGrad

Spec == Init /\ [][Next]_vars

(***************************************************************************)
(* Life-cycle properties                                                   *)
(***************************************************************************)
CallOver == pc \in {"returned", "raised"}

PhaseEvents == {"ref_hooks", "ref_forward", "hooks", "forward", "backward", "remove"}

InstallEvents == {"apply_grad", "ref_hooks", "hooks", "layer_hook"}

\* C1: after any DeepLift or DeepLiftShap attribute() call, returning or
\* raising, every layer has exactly the hooks it had before the call.
C1_HooksAsBeforeCall ==
    (CallOver /\ algo \in {"DeepLift", "DeepLiftShap"}) => hooks = call.preHooks

\* C2: after Saliency, DeepLift or NeuronGradient attribute(), on every exit
\* path, every caller-owned input tensor has the requires_grad flag it had
\* before the call.
C2_RequiresGradRestored ==
    (CallOver /\ algo \in {"Saliency", "DeepLift", "NeuronGradient"})
        => reqGrad = call.preGrad

\* C3: a successful DeepLift.attribute() call runs its phases once each in
\* the order reference hooks, reference forward, paired hooks, hooked
\* forward, backward, removal; no other forward evaluation runs while paired
\* interceptors are attached; the call ends with no interceptor attached.
C3_PhaseOrderAndCleanEnd ==
    (pc = "returned" /\ algo = "DeepLift") =>
        /\ SelectSeq(call.hist, LAMBDA e : e \in PhaseEvents)
             = <<"ref_hooks", "ref_forward", "hooks", "forward", "backward", "remove">>
        /\ call.strayFwd = 0
        /\ \A l \in Layers : hooks[l] = {}

\* C4: with baselines that mismatch the inputs, attribute() of
\* IntegratedGradients, InternalInfluence, NeuronConductance and DeepLift
\* fails before any forward pass, hook installation or requires_grad change.
C4_MismatchRejectedFirst ==
    (CallOver /\ call.mismatch
       /\ algo \in {"IntegratedGradients", "InternalInfluence",
                    "NeuronConductance", "DeepLift"})
        => /\ pc = "raised"
           /\ call.fwdRuns = 0
           /\ \A i \in 1..Len(call.hist) : call.hist[i] \notin InstallEvents
           /\ hooks = call.preHooks
           /\ reqGrad = call.preGrad

\* C5: after any DeepLift.attribute() call, returning or raising, no layer
\* carries any of the injected attributes input, output, input_ref,
\* output_ref, ref_handle.
C5_NoInjectedAttributes ==
    (CallOver /\ algo = "DeepLift")
        => \A l \in Layers : \A a \in AttrNames : attrs[l][a] = NoAttr

\* position of layer l in the sequence s, 0 when it is not in s
Position(s, l) ==
    IF \E i \in 1..Len(s) : s[i] = l THEN CHOOSE i \in 1..Len(s) : s[i] = l ELSE 0

\* the MaxPool layers of the model that carry a DeepLift backward hook
HookedMaxPools ==
    {l \in net : Kind[l] \in MaxPoolKinds /\ HooksOfKind(hooks, l, "bwd") # {}}

\* C11: when the backward pass of DeepLift reaches a hooked MaxPool layer
\* that holds its four snapshots, the max-pool rule still finds the captured
\* raw input and the backward hook of that layer completes without error.
C11_MaxPoolInputAvailable ==
    pc = "dl_backward" =>
        \A l \in HookedMaxPools :
            LET k == Position(GradOrder(net), l)
            IN  (/\ k > 0
                 /\ ~Bwd(hooks, attrs, k - 1).err
                 /\ \A a \in SnapshotAttrs : attrs[l][a] # NoAttr)
                    => ~Bwd(hooks, attrs, k).err

\* the layers on which this call's _register_hooks(..., "ref") installed a
\* reference hook: the hooks at that moment were those before the call
RefInstalled == {l \in net : Eligible(call.preHooks, l)}

\* C13: when the reference pass of DeepLift.attribute has finished, every
\* layer that got a reference hook holds the reference snapshot of this
\* pass and no reference hook and no ref_handle remains on any layer, so
\* that no reference hook can fire a second time.
C13_ReferenceHooksOneShot ==
    (pc = "dl_validate" /\ algo = "DeepLift") =>
        /\ \A l \in RefInstalled :
              /\ attrs[l]["input_ref"] = Snap(calls, "baseline")
              /\ attrs[l]["output_ref"] = Snap(calls, "baseline")
        /\ \A l \in Layers :
              /\ HooksOfKind(hooks, l, "ref") = {}
              /\ attrs[l]["ref_handle"] = NoAttr

\* the previous call was a DeepLift call that raised in its hooked forward
\* pass or in its backward pass
FailedInPass ==
    /\ pc = "raised" /\ algo = "DeepLift"
    /\ call.hist # <<>>
    /\ call.hist[Len(call.hist)] \in {"forward", "backward"}

\* C26: the DeepLift.attribute() call that follows a call which raised in
\* its hooked forward or backward pass installs a reference interceptor of
\* its own on every non-container layer of a supported non-linear type, as
\* a first call on the model does, so that every such layer takes its
\* reference snapshot from the baselines of this call.
C26_FreshInterceptorsAfterFailure ==
    [][(FailedInPass /\ pc' = "dl_reference" /\ algo' = "DeepLift") =>
          \A l \in net :
              (~IsContainer(l) /\ IsNonLinear(l)) =>
                  /\ Hook("ref", calls') \in hooks'[l]
                  /\ attrs'[l]["ref_handle"] = Snap(calls', "handle")]_vars

(***************************************************************************)
(* Exact arithmetic for the numeric kernels: a number is a reduced         *)
(* fraction <<n, d>> with d > 0.                                           *)
(***************************************************************************)
Abs(x) == IF x < 0 THEN -x ELSE x

RECURSIVE Gcd(_, _)
Gcd(a, b) == IF b = 0 THEN a ELSE Gcd(b, a % b)

Frac(n, d) ==
    LET g == Gcd(Abs(n), Abs(d))
        sg == IF d < 0 THEN -1 ELSE 1
    IN  <<(sg * n) \div g, (sg * d) \div g>>

R(n) == <<n, 1>>
RAdd(x, y) == Frac(x[1] * y[2] + y[1] * x[2], x[2] * y[2])
RSub(x, y) == Frac(x[1] * y[2] - y[1] * x[2], x[2] * y[2])
RMul(x, y) == Frac(x[1] * y[1], x[2] * y[2])
RDiv(x, y) == Frac(x[1] * y[2], x[2] * y[1])
RLt(x, y) == x[1] * y[2] < y[1] * x[2]
RAbs(x) == <<Abs(x[1]), x[2]>>

RECURSIVE RSum(_)
RSum(s) == IF s = <<>> THEN R(0) ELSE RAdd(s[1], RSum(Tail(s)))

(***************************************************************************)
(* The Rescale rule of the DeepLift backward hook, on a batch of rows.     *)
(* A cell holds, for one element of the layer's tensor, the six numbers    *)
(* the hook sees: the captured input / output, their references, the       *)
(* default grad_input and the incoming grad_output.  delta_in is counted   *)
(* in units of eps, so eps itself is the number 1.                         *)
(***************************************************************************)
MaxRows == 2
NumFeat == 2
Eps == 1

InVals == {-1, 0, 2}
RefVals == {0, 1}
GradVals == {1, 3}

\* what a ReLU layer computes forward, and the factor of its own backward
Relu(x) == IF x > 0 THEN x ELSE 0
ReluSlope(x) == IF x > 0 THEN 1 ELSE 0

Cells == {[inp |-> i, inp_ref |-> r, out |-> Relu(i), out_ref |-> Relu(r),
           gin |-> g * ReluSlope(i), gout |-> g] :
              i \in InVals, r \in RefVals, g \in GradVals}

Batches == UNION {[1..n -> [1..NumFeat -> Cells]] : n \in 1..MaxRows}

Field(rows, a, b) ==
    [e \in 1..Len(rows) |-> [f \in 1..Len(rows[e]) |-> rows[e][f][a] - rows[e][f][b]]]

\* _backward_hook lines 203-208: delta_in, delta_out from the snapshots
DeltaIn(rows) == Field(rows, "inp", "inp_ref")
DeltaOut(rows) == Field(rows, "out", "out_ref")
GradInput(rows) == [e \in 1..Len(rows) |-> [f \in 1..Len(rows[e]) |-> rows[e][f].gin]]
GradOutput(rows) == [e \in 1..Len(rows) |-> [f \in 1..Len(rows[e]) |-> rows[e][f].gout]]

\* torch.where(delta_in[0] < eps, grad_input[0],
\*             grad_output[0] * delta_out[0] / delta_in[0])
RescaleWhere(din, dout, gin, gout) ==
    [e \in 1..Len(din) |-> [f \in 1..Len(din[e]) |->
        IF din[e][f] < Eps
        THEN R(gin[e][f])
        ELSE RDiv(RMul(R(gout[e][f]), R(dout[e][f])), R(din[e][f]))]]

\* nonlinear(): grad_input[0] = torch.where(...)
Nonlinear(din, dout, gin, gout) == RescaleWhere(din, dout, gin, gout)

Flatten(t) == [k \in 1..(Len(t) * NumFeat) |->
                 t[((k - 1) \div NumFeat) + 1][((k - 1) % NumFeat) + 1]]

\* softmax(): n = grad_input[0].shape[1];
\* grad_input[0] = grad_input_unnorm - grad_input_unnorm.sum() * 1 / n
Softmax(din, dout, gin, gout) ==
    LET unnorm == RescaleWhere(din, dout, gin, gout)
        n == Len(gin[1])
        shift == RDiv(RMul(RSum(Flatten(unnorm)), R(1)), R(n))
    IN  [e \in 1..Len(unnorm) |-> [f \in 1..Len(unnorm[e]) |->
            RSub(unnorm[e][f], shift)]]

\* _backward_hook lines 218-222: SUPPORTED_NON_LINEAR[module._get_name()](...)
BackwardHookGrad(kind, rows) ==
    IF kind = "Softmax"
    THEN Softmax(DeltaIn(rows), DeltaOut(rows), GradInput(rows), GradOutput(rows))
    ELSE Nonlinear(DeltaIn(rows), DeltaOut(rows), GradInput(rows), GradOutput(rows))

LifeIdle ==
    /\ net = CoreLayers
    /\ reqGrad = [t \in Tensors |-> FALSE]
    /\ hooks = NoHooks
    /\ attrs = NoAttrs
    /\ handles = {}
    /\ pc = "idle"
    /\ algo = "none"
    /\ calls = 0
    /\ call = [mismatch |-> FALSE, mask |-> reqGrad, preHooks |-> hooks,
               preAttrs |-> attrs, preGrad |-> reqGrad, hist |-> <<>>,
               fwdRuns |-> 0, strayFwd |-> 0]

RescaleInit ==
    /\ LifeIdle
    /\ num \in [kernel : {"rescale"}, kind : {"ReLU", "Softmax"}, rows : Batches,
                stage : {"drawn"}, batchGrad : {<<>>}, aloneGrad : {<<>>}]

\* the backward hook fires once on the whole batch
BackwardHookOnBatch ==
    /\ num.kernel = "rescale" /\ num.stage = "drawn"
    /\ num' = [num EXCEPT !.stage = "batch",
                          !.batchGrad = BackwardHookGrad(num.kind, num.rows)]
    /\ UNCHANGED lifeVars

\* the backward hook fires on each example attributed alone
BackwardHookPerRow ==
    /\ num.kernel = "rescale" /\ num.stage = "batch"
    /\ num' = [num EXCEPT !.stage = "done",
                          !.aloneGrad = [e \in 1..Len(num.rows) |->
                               BackwardHookGrad(num.kind, <<num.rows[e]>>)[1]]]
    /\ UNCHANGED lifeVars

RescaleNext == BackwardHookOnBatch \/ BackwardHookPerRow

SpecRescale == RescaleInit /\ [][RescaleNext]_vars

\* C10: at a hooked element-wise nonlinearity the backward interceptor
\* returns, for every element, the default grad_input exactly when
\* |delta_in| < eps, and grad_output * delta_out / delta_in whenever
\* |delta_in| >= eps, for negative as well as positive delta_in.
C10_RescaleRule ==
    (num.kernel = "rescale" /\ num.stage # "drawn" /\ num.kind # "Softmax") =>
        \A e \in 1..Len(num.rows) : \A f \in 1..NumFeat :
            LET c == num.rows[e][f]
                din == c.inp - c.inp_ref
                dout == c.out - c.out_ref
            IN  num.batchGrad[e][f] =
                    IF Abs(din) < Eps
                    THEN R(c.gin)
                    ELSE RDiv(RMul(R(c.gout), R(dout)), R(din))

\* C7: attributing a batch gives every example the gradient it gets when
\* attributed alone: at every hooked layer the rule applied to row e uses
\* only that row's own deltas.
C7_BatchRowsIndependent ==
    (num.kernel = "rescale" /\ num.stage = "done") =>
        \A e \in 1..Len(num.rows) : num.batchGrad[e] = num.aloneGrad[e]

\* mean of one row of a tensor
RowMean(row) == RDiv(RSum(row), R(Len(row)))

\* C14: for a hooked Softmax layer and a batch of any number of rows, the
\* backward hook returns for each row the unnormalized Rescale result of
\* that row minus the mean of that same row's unnormalized result.
C14_SoftmaxPerRowMean ==
    (num.kernel = "rescale" /\ num.stage # "drawn" /\ num.kind = "Softmax") =>
        LET unnorm == RescaleWhere(DeltaIn(num.rows), DeltaOut(num.rows),
                                   GradInput(num.rows), GradOutput(num.rows))
        IN  \A e \in 1..Len(num.rows) : \A f \in 1..NumFeat :
                num.batchGrad[e][f] = RSub(unnorm[e][f], RowMean(unnorm[e]))

(***************************************************************************)
(* DeepLiftShap: expansion of I inputs and B baselines into I*B rows, the  *)
(* DeepLift engine on the expanded batch, and the mean over baselines.     *)
(***************************************************************************)
MaxInputs == 2
MaxBaselines == 2

ShapVals == {0, 2}
ShapRows == [1..NumFeat -> ShapVals]
ShapBatches(n) == UNION {[1..k -> ShapRows] : k \in 1..n}

\* input.repeat_interleave(base_bsz, dim=0): source row of expanded row k
RepeatInterleaveIndex(k, baseBsz) == ((k - 1) \div baseBsz) + 1

\* baseline.repeat((inp_bsz, 1, ...)): source row of expanded row k
RepeatIndex(k, baseBsz) == ((k - 1) % baseBsz) + 1

\* DeepLiftShap.attribute lines 375-380
ExpandInputs(inputs, baseBsz) ==
    [k \in 1..(Len(inputs) * baseBsz) |-> inputs[RepeatInterleaveIndex(k, baseBsz)]]

\* the baselines tiled row by row, as the inputs are: a layout in which
\* expanded row k no longer pairs input and baseline as the code does
ExpandBaselinesInterleaved(baselines, inpBsz) ==
    [k \in 1..(inpBsz * Len(baselines)) |-> baselines[RepeatInterleaveIndex(k, inpBsz)]]

\* DeepLiftShap.attribute lines 381-388
ExpandBaselines(baselines, inpBsz) ==
    [k \in 1..(inpBsz * Len(baselines)) |-> baselines[RepeatIndex(k, Len(baselines))]]

\* DeepLift.attribute lines 148-151 on a model with unit gradient:
\* (input - baseline) * gradient, row by row
EngineAttribution(inputs, baselines) ==
    [k \in 1..Len(inputs) |-> [f \in 1..NumFeat |-> inputs[k][f] - baselines[k][f]]]

\* compute_mean: attribution.view((base_bsz, inp_bsz, -1)), mean over axis 0
ComputeMean(inpBsz, baseBsz, attribution) ==
    [c \in 1..inpBsz |-> [f \in 1..NumFeat |->
        RDiv(RSum([r \in 1..baseBsz |-> R(attribution[(r - 1) * inpBsz + c][f])]),
             R(baseBsz))]]

ShapInit ==
    /\ LifeIdle
    /\ num \in [kernel : {"shap"}, inputs : ShapBatches(MaxInputs),
                baselines : ShapBatches(MaxBaselines), stage : {"drawn"},
                expInputs : {<<>>}, expBaselines : {<<>>},
                inputRow : {<<>>}, baselineRow : {<<>>},
                expAttr : {<<>>}, attr : {<<>>}]

\* DeepLiftShap.attribute lines 367-388
ShapExpand ==
    /\ num.kernel = "shap" /\ num.stage = "drawn"
    /\ LET inpBsz == Len(num.inputs)
           baseBsz == Len(num.baselines)
       IN  num' = [num EXCEPT
                     !.stage = "expanded",
                     !.expInputs = ExpandInputs(num.inputs, baseBsz),
                     !.expBaselines = ExpandBaselines(num.baselines, inpBsz),
                     !.inputRow = [k \in 1..(inpBsz * baseBsz) |->
                                      RepeatInterleaveIndex(k, baseBsz)],
                     !.baselineRow = [k \in 1..(inpBsz * baseBsz) |->
                                      RepeatIndex(k, baseBsz)]]
    /\ UNCHANGED lifeVars

\* DeepLiftShap.attribute lines 390-395: super().attribute(...)
ShapEngine ==
    /\ num.kernel = "shap" /\ num.stage = "expanded"
    /\ num' = [num EXCEPT !.stage = "attributed",
                          !.expAttr = EngineAttribution(num.expInputs, num.expBaselines)]
    /\ UNCHANGED lifeVars

\* DeepLiftShap.attribute lines 397-399
ShapMean ==
    /\ num.kernel = "shap" /\ num.stage = "attributed"
    /\ num' = [num EXCEPT !.stage = "done",
                          !.attr = ComputeMean(Len(num.inputs), Len(num.baselines),
                                               num.expAttr)]
    /\ UNCHANGED lifeVars

ShapNext == ShapExpand \/ ShapEngine \/ ShapMean

SpecShap == ShapInit /\ [][ShapNext]_vars

\* the expanded row that pairs input i with baseline b
PairRow(i, b) ==
    CHOOSE k \in 1..Len(num.inputRow) :
        num.inputRow[k] = i /\ num.baselineRow[k] = b

\* C6: DeepLiftShap returns, for every original example i and feature f, the
\* arithmetic mean over all baselines b of the expanded-batch attribution of
\* the row that pairs input i with baseline b.
C6_MeanOverBaselines ==
    (num.kernel = "shap" /\ num.stage = "done") =>
        \A i \in 1..Len(num.inputs) : \A f \in 1..NumFeat :
            num.attr[i][f] =
                RDiv(RSum([b \in 1..Len(num.baselines) |->
                              R(num.expAttr[PairRow(i, b)][f])]),
                     R(Len(num.baselines)))

(***************************************************************************)
(* The expansion on a tuple of two input tensors with their two baseline   *)
(* tensors.  Both tensors of a tuple have the same batch size; the second  *)
(* tensor has constant rows.                                               *)
(***************************************************************************)
ConstRows == {r \in ShapRows : \A f \in 1..NumFeat : r[f] = r[1]}

\* tuples (tensor 1, tensor 2) of n rows each, n up to maxN
TupleBatches(maxN) ==
    UNION {{<<t1, t2>> : t1 \in [1..n -> ShapRows], t2 \in [1..n -> ConstRows]} :
              n \in 1..maxN}

TupleInit ==
    /\ LifeIdle
    /\ num \in [kernel : {"shaptuple"}, inputs : TupleBatches(MaxInputs),
                baselines : TupleBatches(MaxBaselines), stage : {"drawn"},
                expInputs : {<<>>}, expBaselines : {<<>>}]

\* DeepLiftShap.attribute lines 367-388: inp_bsz and base_bsz are read from
\* the first tensors, then every tensor of the tuple is tiled
ShapExpandTuple ==
    /\ num.kernel = "shaptuple" /\ num.stage = "drawn"
    /\ LET inpBsz == Len(num.inputs[1])
           baseBsz == Len(num.baselines[1])
       IN  num' = [num EXCEPT
                     !.stage = "expanded",
                     !.expInputs = [t \in DOMAIN num.inputs |->
                                      ExpandInputs(num.inputs[t], baseBsz)],
                     !.expBaselines = [t \in DOMAIN num.baselines |->
                                      ExpandBaselines(num.baselines[t], inpBsz)]]
    /\ UNCHANGED lifeVars

\* DeepLiftShap.attribute lines 397-399: the expanded batch is reduced again
ShapReduceTuple ==
    /\ num.kernel = "shaptuple" /\ num.stage = "expanded"
    /\ num' = [num EXCEPT !.stage = "reduced"]
    /\ UNCHANGED lifeVars

TupleNext == ShapExpandTuple \/ ShapReduceTuple

SpecShapTuple == TupleInit /\ [][TupleNext]_vars

\* the rows of tensor 1 identify the examples: they are pairwise distinct
DistinctRows(t) == \A i, j \in 1..Len(t) : t[i] = t[j] => i = j

\* the expanded rows at which every tensor of the tuple holds input i and
\* baseline b
PairRows(i, b) ==
    {k \in 1..Len(num.expInputs[1]) :
        \A t \in DOMAIN num.inputs :
            /\ k \in DOMAIN num.expInputs[t] /\ k \in DOMAIN num.expBaselines[t]
            /\ num.expInputs[t][k] = num.inputs[t][i]
            /\ num.expBaselines[t][k] = num.baselines[t][b]}

\* C15: the expansion of I inputs and B baselines has exactly I*B rows in
\* every tensor, and every pair (input i, baseline b) sits at exactly one
\* row index, the same for every tensor of the tuple.
C15_ExpansionPairsOnce ==
    (num.kernel = "shaptuple" /\ num.stage = "expanded") =>
        LET inpBsz == Len(num.inputs[1])
            baseBsz == Len(num.baselines[1])
        IN  /\ \A t \in DOMAIN num.inputs :
                  /\ Len(num.expInputs[t]) = inpBsz * baseBsz
                  /\ Len(num.expBaselines[t]) = inpBsz * baseBsz
            /\ (DistinctRows(num.inputs[1]) /\ DistinctRows(num.baselines[1])) =>
                  \A i \in 1..inpBsz : \A b \in 1..baseBsz :
                      Cardinality(PairRows(i, b)) = 1

C15_Witness ==
    /\ num.kernel = "shaptuple" /\ num.stage = "expanded"
    /\ Len(num.inputs[1]) = MaxInputs /\ Len(num.baselines[1]) = MaxBaselines
    /\ DistinctRows(num.inputs[1]) /\ DistinctRows(num.baselines[1])
    /\ num.inputs[2][1] # num.inputs[2][2]
    /\ Cardinality(PairRows(MaxInputs, 1)) = 1

(***************************************************************************)
(* Shapes of the returned attributions.  A shape is a sequence of          *)
(* dimensions, batch dimension first; -1 in a view target is inferred.     *)
(***************************************************************************)
MaxRank == 3
MaxTuple == 2
MaxBatch == 2
MaxSteps == 2

DimVals == {2, 3}
RestShapes == UNION {[1..r -> DimVals] : r \in 0..(MaxRank - 1)}

RECURSIVE Numel(_)
Numel(shape) == IF shape = <<>> THEN 1 ELSE shape[1] * Numel(Tail(shape))

\* tensor.view(target): the dimension given as -1 is inferred
View(shape, target) ==
    LET known == Numel(SelectSeq(target, LAMBDA d : d # -1))
    IN  [i \in 1..Len(target) |->
            IF target[i] = -1 THEN Numel(shape) \div known ELSE target[i]]

\* torch.cat of n tensors of one shape along dim 0
CatShape(shape, n) == <<n * shape[1]>> \o Tail(shape)

\* torch.mean / torch.sum over axis 0, keepdim=False
ReduceAxis0(shape) == Tail(shape)

\* the differentiation engine: one gradient per input, of the input's shape
GradShape(shape) == shape

\* Saliency.attribute lines 92-98
SaliencyShape(shape) == GradShape(shape)

\* NeuronGradient.attribute lines 102-105
NeuronGradientShape(shape) == GradShape(shape)

\* DeepLift.attribute lines 148-151
DeepLiftShape(shape) == GradShape(shape)

\* _reshape_and_sum(tensor, num_steps, num_examples, layer_size)
ReshapeAndSumShape(shape, nSteps, numExamples, layerSize) ==
    ReduceAxis0(View(shape, <<nSteps, numExamples>> \o layerSize))

\* IntegratedGradients.attribute lines 125-173
IntegratedGradientsShape(shape, nSteps) ==
    LET grad == GradShape(CatShape(shape, nSteps))
        scaled == View(grad, <<nSteps, -1>>)
    IN  ReshapeAndSumShape(scaled, nSteps, grad[1] \div nSteps, Tail(grad))

\* NeuronConductance.attribute lines 137-214
NeuronConductanceShape(shape, nSteps) ==
    LET grad == GradShape(CatShape(shape, nSteps))
        scaled == View(grad, <<nSteps, -1>>)
    IN  ReshapeAndSumShape(scaled, nSteps, shape[1], Tail(grad))

\* compute_mean: attr_shape = (base_bsz, inp_bsz) (+ (-1,) when rank > 1)
ComputeMeanShape(inpBsz, baseBsz, shape) ==
    LET attrShape == IF Len(shape) > 1 THEN <<baseBsz, inpBsz, -1>>
                                       ELSE <<baseBsz, inpBsz>>
    IN  ReduceAxis0(View(shape, attrShape))

\* DeepLiftShap.attribute lines 371-399
DeepLiftShapShape(shape, baseBsz) ==
    LET expanded == <<shape[1] * baseBsz>> \o Tail(shape)
    IN  ComputeMeanShape(shape[1], baseBsz, DeepLiftShape(expanded))

AttributionShape(a, shape, nSteps, baseBsz) ==
    CASE a = "Saliency" -> SaliencyShape(shape)
      [] a = "NeuronGradient" -> NeuronGradientShape(shape)
      [] a = "DeepLift" -> DeepLiftShape(shape)
      [] a = "DeepLiftShap" -> DeepLiftShapShape(shape, baseBsz)
      [] a = "IntegratedGradients" -> IntegratedGradientsShape(shape, nSteps)
      [] a = "NeuronConductance" -> NeuronConductanceShape(shape, nSteps)

\* _format_attributions(is_inputs_tuple, attributions)
FormatAttributions(isTuple, shapes) ==
    [isTuple |-> isTuple, shapes |-> IF isTuple THEN shapes ELSE <<shapes[1]>>]

ShapeAlgos == {"Saliency", "NeuronGradient", "DeepLift", "DeepLiftShap",
               "IntegratedGradients", "NeuronConductance"}

ShapeInit ==
    /\ LifeIdle
    /\ \E a \in ShapeAlgos, tup \in BOOLEAN, n \in 1..MaxTuple, bsz \in 1..MaxBatch,
          nSteps \in 1..MaxSteps, baseBsz \in 1..MaxBaselines :
          \E rest \in [1..n -> RestShapes] :
             /\ ~tup => n = 1
             /\ num = [kernel |-> "shape", algo |-> a, isTuple |-> tup,
                       shapes |-> [j \in 1..n |-> <<bsz>> \o rest[j]],
                       nSteps |-> nSteps, baseBsz |-> baseBsz,
                       stage |-> "drawn",
                       result |-> [isTuple |-> FALSE, shapes |-> <<>>]]

\* attribute(): is_inputs_tuple, format_input, the algorithm, _format_attributions
AttributeShapes ==
    /\ num.kernel = "shape" /\ num.stage = "drawn"
    /\ num' = [num EXCEPT
                 !.stage = "done",
                 !.result = FormatAttributions(num.isTuple,
                     [j \in 1..Len(num.shapes) |->
                         AttributionShape(num.algo, num.shapes[j],
                                          num.nSteps, num.baseBsz)])]
    /\ UNCHANGED lifeVars

ShapeNext == AttributeShapes

SpecShape == ShapeInit /\ [][ShapeNext]_vars

\* C9: the returned attributions hold one tensor per input tensor, each of
\* exactly the shape of its input (for any rank), and the result is a tuple
\* if and only if inputs was passed as a tuple.
C9_AttributionShapes ==
    (num.kernel = "shape" /\ num.stage = "done") =>
        /\ num.result.isTuple = num.isTuple
        /\ num.result.shapes = num.shapes

(***************************************************************************)
(* IntegratedGradients on the row-wise model F(x) = sum over features of   *)
(* x^3 (gradient 3 x^2), in exact arithmetic.  Tensors that the code views *)
(* and reshapes are kept as flat row-major buffers.                        *)
(***************************************************************************)
IGMaxBatch == 2
IGSteps == 3
IGFeat == 2

\* <<input value, baseline value>> of one feature
IGPairs == {<<2, 1>>, <<-1, 0>>}
IGRows == [1..IGFeat -> IGPairs]
IGBatches == UNION {[1..n -> IGRows] : n \in 1..IGMaxBatch}

Methods == {"riemann_right", "riemann_left", "riemann_middle",
            "riemann_trapezoid", "gausslegendre"}

\* approximation_parameters(method): step_sizes(n), quadrature weights that
\* sum to 1; the trapezoid gives half weight to the first and last step
StepSizes(method, n) ==
    CASE method = "riemann_trapezoid" ->
            [k \in 1..n |-> IF n = 1 THEN R(1)
                            ELSE IF k = 1 \/ k = n THEN Frac(1, 2 * (n - 1))
                            ELSE Frac(1, n - 1)]
      [] method = "gausslegendre" -> [k \in 1..n |-> R(1)]
      [] OTHER -> [k \in 1..n |-> Frac(1, n)]

\* approximation_parameters(method): alphas(n)
Alphas(method, n) ==
    CASE method = "riemann_left" -> [k \in 1..n |-> Frac(k - 1, n)]
      [] method = "riemann_right" -> [k \in 1..n |-> Frac(k, n)]
      [] method = "riemann_middle" -> [k \in 1..n |-> Frac(2 * k - 1, 2 * n)]
      [] method = "riemann_trapezoid" ->
            [k \in 1..n |-> IF n = 1 THEN R(0) ELSE Frac(k - 1, n - 1)]
      [] method = "gausslegendre" -> [k \in 1..n |-> Frac(1, 2)]

\* the Gauss-Legendre abscissae are rational only for one step
MethodSteps == {ms \in Methods \X (1..IGSteps) : ms[1] = "gausslegendre" => ms[2] = 1}

InputOf(rows) == [e \in 1..Len(rows) |-> [f \in 1..IGFeat |-> R(rows[e][f][1])]]
BaselineOf(rows) == [e \in 1..Len(rows) |-> [f \in 1..IGFeat |-> R(rows[e][f][2])]]

\* forward_func on one row, summed output
ModelForward(row) == RSum([f \in 1..IGFeat |-> RMul(row[f], RMul(row[f], row[f]))])

\* gradient of the summed output with respect to one row
ModelGradient(row) == [f \in 1..IGFeat |-> RMul(R(3), RMul(row[f], row[f]))]

\* a wrong layout of the concatenated batch: the steps of one example kept
\* adjacent (the order input.repeat_interleave would give)
ScaledFeaturesInterleaved(inputs, baselines, alphas) ==
    LET bsz == Len(inputs)
    IN  [r \in 1..(Len(alphas) * bsz) |->
            LET s == ((r - 1) % Len(alphas)) + 1
                e == ((r - 1) \div Len(alphas)) + 1
            IN  [f \in 1..IGFeat |->
                    RAdd(baselines[e][f],
                         RMul(alphas[s], RSub(inputs[e][f], baselines[e][f])))]]

\* lines 125-130: torch.cat([baseline + alpha * (input - baseline)
\*                           for alpha in alphas], dim=0)
ScaledFeatures(inputs, baselines, alphas) ==
    LET bsz == Len(inputs)
    IN  [r \in 1..(Len(alphas) * bsz) |->
            LET s == ((r - 1) \div bsz) + 1
                e == ((r - 1) % bsz) + 1
            IN  [f \in 1..IGFeat |->
                    RAdd(baselines[e][f],
                         RMul(alphas[s], RSub(inputs[e][f], baselines[e][f])))]]

\* gradient_func on the concatenated batch, as a contiguous buffer
FlatGrads(scaled) ==
    [k \in 1..(Len(scaled) * IGFeat) |->
        ModelGradient(scaled[((k - 1) \div IGFeat) + 1])[((k - 1) % IGFeat) + 1]]

\* lines 153-157: grad.contiguous().view(n_steps, -1) * step_sizes.view(n_steps, 1)
ScaledGrads(flat, stepSizes) ==
    LET width == Len(flat) \div Len(stepSizes)
    IN  [k \in 1..Len(flat) |-> RMul(flat[k], stepSizes[((k - 1) \div width) + 1])]

\* a reshape that takes the buffer as (num_examples, num_steps) + layer_size:
\* it adds up rows that belong to different examples
ReshapeAndSumInterleaved(flat, nSteps, numExamples) ==
    [e \in 1..numExamples |-> [f \in 1..IGFeat |->
        RSum([s \in 1..nSteps |-> flat[((e - 1) * nSteps + (s - 1)) * IGFeat + f]])]]

\* _reshape_and_sum: reshape to (num_steps, num_examples) + layer_size, sum dim 0
ReshapeAndSum(flat, nSteps, numExamples) ==
    [e \in 1..numExamples |-> [f \in 1..IGFeat |->
        RSum([s \in 1..nSteps |-> flat[((s - 1) * numExamples + (e - 1)) * IGFeat + f]])]]

\* _compute_convergence_delta without the final abs: attr_sum - (end - start)
Residual(attributions, startPoint, endPoint) ==
    LET attrSum == RSum([e \in 1..Len(attributions) |-> RSum(attributions[e])])
        start == RSum([e \in 1..Len(startPoint) |-> ModelForward(startPoint[e])])
        end == RSum([e \in 1..Len(endPoint) |-> ModelForward(endPoint[e])])
    IN  RSub(attrSum, RSub(end, start))

\* the signed difference returned as it is, without the final abs
ComputeConvergenceDeltaSigned(attributions, startPoint, endPoint) ==
    Residual(attributions, startPoint, endPoint)

\* IntegratedGradients._compute_convergence_delta
ComputeConvergenceDelta(attributions, startPoint, endPoint) ==
    RAbs(Residual(attributions, startPoint, endPoint))

\* the summed gradient multiplied by the input alone instead of by
\* (input - baseline)
IGAttributeTimesInput(inputs, baselines, method, nSteps) ==
    LET stepSizes == StepSizes(method, nSteps)
        alphas == Alphas(method, nSteps)
        scaled == ScaledFeatures(inputs, baselines, alphas)
        grads == FlatGrads(scaled)
        total == ReshapeAndSum(ScaledGrads(grads, stepSizes), nSteps,
                               Len(scaled) \div nSteps)
        attributions == [e \in 1..Len(inputs) |-> [f \in 1..IGFeat |->
                            RMul(total[e][f], inputs[e][f])]]
    IN  [attr |-> attributions,
         delta |-> ComputeConvergenceDelta(attributions, baselines, inputs),
         residual |-> Residual(attributions, baselines, inputs)]

\* IntegratedGradients.attribute lines 115-186
IGAttribute(inputs, baselines, method, nSteps) ==
    LET stepSizes == StepSizes(method, nSteps)
        alphas == Alphas(method, nSteps)
        scaled == ScaledFeatures(inputs, baselines, alphas)
        grads == FlatGrads(scaled)
        total == ReshapeAndSum(ScaledGrads(grads, stepSizes), nSteps,
                               Len(scaled) \div nSteps)
        attributions == [e \in 1..Len(inputs) |-> [f \in 1..IGFeat |->
                            RMul(total[e][f], RSub(inputs[e][f], baselines[e][f]))]]
    IN  [attr |-> attributions,
         delta |-> ComputeConvergenceDelta(attributions, baselines, inputs),
         residual |-> Residual(attributions, baselines, inputs)]

IGInit ==
    /\ LifeIdle
    /\ \E rows \in IGBatches, ms \in MethodSteps :
          num = [kernel |-> "ig", rows |-> rows, method |-> ms[1], nSteps |-> ms[2],
                 stage |-> "drawn", batch |-> <<>>, each |-> <<>>]

\* ig.attribute(inputs, baselines, method=method, n_steps=n_steps)
IGAttributeBatch ==
    /\ num.kernel = "ig" /\ num.stage = "drawn"
    /\ num' = [num EXCEPT
                 !.stage = "batch",
                 !.batch = IGAttribute(InputOf(num.rows), BaselineOf(num.rows),
                                       num.method, num.nSteps)]
    /\ UNCHANGED lifeVars

\* ig.attribute(input[i : i + 1], baseline[i : i + 1], ...) for every example i
IGAttributeEach ==
    /\ num.kernel = "ig" /\ num.stage = "batch"
    /\ num' = [num EXCEPT
                 !.stage = "done",
                 !.each = [e \in 1..Len(num.rows) |->
                              IGAttribute(InputOf(<<num.rows[e]>>),
                                          BaselineOf(<<num.rows[e]>>),
                                          num.method, num.nSteps)]]
    /\ UNCHANGED lifeVars

IGNext == IGAttributeBatch \/ IGAttributeEach

SpecIG == IGInit /\ [][IGNext]_vars

IGDone == num.kernel = "ig" /\ num.stage = "done"

SumOfDeltas == RSum([e \in 1..Len(num.each) |-> num.each[e].delta])

SameAttributions ==
    \A e \in 1..Len(num.rows) : num.batch.attr[e] = num.each[e].attr[1]

PathPoint(inputs, baselines, alphas, e, s) ==
    [f \in 1..IGFeat |->
        RAdd(baselines[e][f], RMul(alphas[s], RSub(inputs[e][f], baselines[e][f])))]

\* (input - baseline) * sum over steps of step_sizes[s] * g[s][e][f]
QuadratureOf(inputs, baselines, method, nSteps, e, f) ==
    LET stepSizes == StepSizes(method, nSteps)
        alphas == Alphas(method, nSteps)
    IN  RMul(RSub(inputs[e][f], baselines[e][f]),
             RSum([s \in 1..nSteps |->
                     RMul(stepSizes[s],
                          ModelGradient(PathPoint(inputs, baselines, alphas, e, s))[f])]))

\* C16: IntegratedGradients.attribute returns, for every example e and
\* feature f, (input - baseline) times the sum over the steps of the step
\* weight times the gradient at that step's point of example e: no step
\* weight meets another step's gradient, no example another example's.
C16_AttributionIsQuadrature ==
    (num.kernel = "ig" /\ num.stage # "drawn") =>
        \A e \in 1..Len(num.rows) : \A f \in 1..IGFeat :
            num.batch.attr[e][f] =
                QuadratureOf(InputOf(num.rows), BaselineOf(num.rows),
                             num.method, num.nSteps, e, f)

C16_Witness ==
    /\ num.kernel = "ig" /\ num.stage = "batch"
    /\ Len(num.rows) = IGMaxBatch
    /\ num.rows[1] # num.rows[2]
    /\ num.method = "riemann_trapezoid" /\ num.nSteps = IGSteps
    /\ StepSizes(num.method, num.nSteps)[1] # StepSizes(num.method, num.nSteps)[2]
    /\ \A e \in 1..Len(num.rows) : \A f \in 1..IGFeat : num.batch.attr[e][f] # R(0)

\* sum of forward_func over the rows of a batch
SumForward(batch) == RSum([e \in 1..Len(batch) |-> ModelForward(batch[e])])

\* sum of every element of the attributions
SumAttributions(attr) == RSum([e \in 1..Len(attr) |-> RSum(attr[e])])

\* C17: the delta IntegratedGradients.attribute returns is
\* |sum of the returned attributions - (sum F(inputs) - sum F(baselines))|
\* on the original inputs and baselines; it is never negative; the call
\* leaves inputs and baselines as they were and the attributions it returns
\* are the ones computed before the delta.
C17_DeltaIsAbsoluteGap ==
    [][(num.kernel = "ig" /\ num.stage = "drawn") =>
          /\ num'.rows = num.rows
          /\ num'.batch.delta =
                RAbs(RSub(SumAttributions(num'.batch.attr),
                          RSub(SumForward(InputOf(num.rows)),
                               SumForward(BaselineOf(num.rows)))))
          /\ ~RLt(num'.batch.delta, R(0))
          /\ \A e \in 1..Len(num.rows) : \A f \in 1..IGFeat :
                num'.batch.attr[e][f] =
                    QuadratureOf(InputOf(num.rows), BaselineOf(num.rows),
                                 num.method, num.nSteps, e, f)]_vars

C17_Witness ==
    /\ num.kernel = "ig" /\ num.stage = "batch"
    /\ Len(num.rows) = IGMaxBatch
    /\ RLt(num.batch.residual, R(0))
    /\ RLt(R(0), num.batch.delta)

\* C21: with n_steps = 1 and method riemann_left the only point the
\* gradient is evaluated at is the baseline of each example, and the
\* attribution of every feature is (input - baseline) * gradient(baseline).
C21_GradientAtBaselineOnly ==
    (num.kernel = "ig" /\ num.stage # "drawn"
        /\ num.method = "riemann_left" /\ num.nSteps = 1) =>
        /\ ScaledFeatures(InputOf(num.rows), BaselineOf(num.rows),
                          Alphas(num.method, num.nSteps)) = BaselineOf(num.rows)
        /\ \A e \in 1..Len(num.rows) : \A f \in 1..IGFeat :
              num.batch.attr[e][f] =
                  RMul(RSub(InputOf(num.rows)[e][f], BaselineOf(num.rows)[e][f]),
                       ModelGradient(BaselineOf(num.rows)[e])[f])

C21_Witness ==
    /\ num.kernel = "ig" /\ num.stage = "batch"
    /\ num.method = "riemann_left" /\ num.nSteps = 1
    /\ Len(num.rows) = IGMaxBatch
    /\ \E e \in 1..Len(num.rows) : \E f \in 1..IGFeat :
          /\ num.batch.attr[e][f] # R(0)
          /\ ModelGradient(BaselineOf(num.rows)[e])[f]
               # ModelGradient(InputOf(num.rows)[e])[f]

(***************************************************************************)
(* Hook registration over a nested model: _traverse_modules walks the      *)
(* children of every module, depth first, and offers each to               *)
(* _register_hooks.  A module is described by its class name, as           *)
(* module._get_name() returns it, and by whether the caller had already    *)
(* registered a backward hook of their own on it.                          *)
(*     model -> a -> a1 -> a11                                             *)
(*           -> b                                                          *)
(***************************************************************************)
TreeNodes == {"a", "a1", "a11", "b"}
TreeLeaves == {"a11", "b"}
TreeParents == {"a", "a1"}

Children == [model |-> <<"a", "b">>, a |-> <<"a1">>, a1 |-> <<"a11">>,
             a11 |-> <<>>, b |-> <<>>]

\* class names of torch.nn modules without children, and of modules with
\* children (Block stands for a user-defined nn.Module subclass)
LeafTypes == {"ReLU", "ELU", "LeakyReLU", "Sigmoid", "Tanh", "Softplus",
              "Softmax", "MaxPool1d", "MaxPool2d", "MaxPool3d",
              "Linear", "Conv2d"}
ParentTypes == {"Sequential", "Block"}

\* _register_hooks on one module: the early return, else the registration
RegisterHooksOn(tr, module, hooked) ==
    IF \/ IsContainerType(tr.type[module])
       \/ module \in tr.userHooked \/ module \in hooked
       \/ ~IsNonLinearType(tr.type[module])
    THEN hooked
    ELSE hooked \cup {module}

RECURSIVE TraverseChildren(_, _, _, _)
\* _traverse_modules on the first n children of a module
TraverseChildren(tr, kids, n, hooked) ==
    IF n = 0 THEN hooked
    ELSE LET before == TraverseChildren(tr, kids, n - 1, hooked)
             child == kids[n]
             inner == TraverseChildren(tr, Children[child], Len(Children[child]), before)
         IN  RegisterHooksOn(tr, child, inner)

\* _traverse_modules(self.model, self._register_hooks)
TraverseModules(tr) ==
    TraverseChildren(tr, Children["model"], Len(Children["model"]), {})

RegisterInit ==
    /\ LifeIdle
    /\ \E ty \in [TreeNodes -> LeafTypes \cup ParentTypes], uh \in SUBSET {"b"} :
          /\ \A n \in TreeLeaves : ty[n] \in LeafTypes
          /\ \A n \in TreeParents : ty[n] \in ParentTypes
          /\ num = [kernel |-> "register", type |-> ty, userHooked |-> uh,
                    stage |-> "built", hooked |-> {}]

\* DeepLift.attribute line 141 on the nested model
RegisterOnTree ==
    /\ num.kernel = "register" /\ num.stage = "built"
    /\ num' = [num EXCEPT !.stage = "registered", !.hooked = TraverseModules(num)]
    /\ UNCHANGED lifeVars

\* DeepLift.attribute line 154: every handle removed
RemoveFromTree ==
    /\ num.kernel = "register" /\ num.stage = "registered"
    /\ num' = [num EXCEPT !.stage = "removed", !.hooked = {}]
    /\ UNCHANGED lifeVars

RegisterNext == RegisterOnTree \/ RemoveFromTree

SpecRegister == RegisterInit /\ [][RegisterNext]_vars

\* the operation types the specification lists as supported
ListedTypes == {"ReLU", "ELU", "LeakyReLU", "Sigmoid", "Tanh", "Softplus",
                "Softmax", "MaxPool1d", "MaxPool2d", "MaxPool3d"}

\* C12: after DeepLift registered its hooks, a layer at any nesting depth
\* carries an interceptor if and only if it is not a container and its type
\* is one of ReLU, ELU, LeakyReLU, Sigmoid, Tanh, Softplus, Softmax,
\* MaxPool1d, MaxPool2d, MaxPool3d.
C12_HookedIffListedType ==
    (num.kernel = "register" /\ num.stage = "registered") =>
        \A n \in TreeNodes :
            n \in num.hooked <=>
                (~IsContainerType(num.type[n]) /\ num.type[n] \in ListedTypes)

(***************************************************************************)
(* LRP propagation rules: the quantities a rule object derives in its      *)
(* forward hooks and keeps in its own fields.  The layer is a linear layer *)
(* with one output neuron, the same weight w on each of its n input        *)
(* features and a bias b, so that forward(x, ..., x) = n * w * x + b.      *)
(* A value plus k times STABILITY_FACTOR is the pair <<value, k>>.         *)
(***************************************************************************)
LRPMaxCalls == 2
LRPMaxShape == 2

LRPWeights == {-2, -1, 1, 2}
LRPBiases == {0, 1}
LRPShapes == 1..LRPMaxShape
RuleKinds == {"WSquaredRule", "FlatRule", "ZBoundRule", "AlphaBetaRule"}

\* ZBoundRule.__init__ defaults: lower_bound = -1.0, upper_bound = 1.0
LowerBound == -1
UpperBound == 1

\* torch.Tensor(), tuple() and None in the fields of a new rule; a field
\* that was assigned holds <<value>>
NoVal == <<>>

\* module.forward on n features that all hold x
LayerForward(w, b, x, n) == n * w * x + b

Clamp0Min(w) == IF w < 0 THEN 0 ELSE w
Clamp0Max(w) == IF w > 0 THEN 0 ELSE w

\* WSquaredRule.__init__ / ZBoundRule.__init__ / AlphaBetaRule.__init__
NewRule(kind, setBiasToZero) ==
    [kind |-> kind, set_bias_to_zero |-> setBiasToZero,
     input_shapes |-> NoVal, denominator |-> NoVal,
     module_neg |-> NoVal, bias_contrib |-> NoVal,
     upper_bound_contrib |-> NoVal, denominator_bound_contribution |-> NoVal]

\* WSquaredRule._manipulate_weights / FlatRule._manipulate_weights:
\* the layer as the hooked forward pass sees it
SquaredOrFlatLayer(kind, layer) ==
    [w |-> IF kind = "FlatRule" THEN 1 ELSE layer.w * layer.w, b |-> 0]

\* WSquaredRule._compute_denominator
ComputeDenominator(rule, layer, shape) ==
    IF <<shape>> # rule.input_shapes
    THEN [rule EXCEPT !.input_shapes = <<shape>>,
                      !.denominator = <<LayerForward(layer.w, layer.b, 1, shape), 1>>]
    ELSE rule

\* ZBoundRule._manipulate_weights / AlphaBetaRule._manipulate_weights:
\* the bias contribution, taken once when the field is None
BiasContribution(rule, layer, shape) ==
    LET wanted == IF rule.kind = "ZBoundRule" THEN rule.set_bias_to_zero
                  ELSE ~rule.set_bias_to_zero
    IN  IF wanted /\ rule.bias_contrib = NoVal
        THEN [rule EXCEPT !.bias_contrib = <<LayerForward(layer.w, layer.b, 0, shape)>>]
        ELSE rule

\* ZBoundRule._separate_weights_by_sign: the negative copy is made once
SeparateWeightsBySign(rule, layer) ==
    IF rule.module_neg = NoVal
    THEN [rule EXCEPT !.module_neg = <<Clamp0Max(layer.w)>>]
    ELSE rule

\* ZBoundRule._create_auxiliary_quantities (AlphaBetaRule overrides it and
\* keeps nothing that depends on the weights)
CreateAuxiliaryQuantities(rule, layer, shape) ==
    IF rule.kind = "ZBoundRule" /\ <<shape>> # rule.input_shapes
    THEN LET upper == LayerForward(rule.module_neg[1], 0, UpperBound, shape)
         IN  [rule EXCEPT
                !.input_shapes = <<shape>>,
                !.upper_bound_contrib = <<upper>>,
                !.denominator_bound_contribution =
                    <<LayerForward(Clamp0Min(layer.w), 0, LowerBound, shape) + upper>>]
    ELSE rule

\* the forward hooks of one attribute() call on the rule of one layer:
\* forward_hook_weights in the weight-changing pass, forward_hook in the
\* hooked pass
RuleForwardHooks(rule, layer, shape) ==
    IF rule.kind \in {"WSquaredRule", "FlatRule"}
    THEN ComputeDenominator(rule, SquaredOrFlatLayer(rule.kind, layer), shape)
    ELSE CreateAuxiliaryQuantities(
             SeparateWeightsBySign(BiasContribution(rule, layer, shape), layer),
             layer, shape)

LRPInit ==
    /\ LifeIdle
    /\ \E k \in RuleKinds, z \in BOOLEAN, w \in LRPWeights, b \in LRPBiases :
          num = [kernel |-> "lrp", layer |-> [w |-> w, b |-> b],
                 rule |-> NewRule(k, z), stage |-> "idle", shape |-> 1, ncalls |-> 0]

\* one attribute() call with an input of the given shape, on the rule object
\* of the previous call or on a newly constructed one of the same class
LRPAttribute(shape, reuse) ==
    /\ num.kernel = "lrp" /\ num.ncalls < LRPMaxCalls
    /\ LET rule == IF reuse THEN num.rule
                   ELSE NewRule(num.rule.kind, num.rule.set_bias_to_zero)
       IN  num' = [num EXCEPT !.rule = RuleForwardHooks(rule, num.layer, shape),
                              !.stage = "attributed", !.shape = shape,
                              !.ncalls = @ + 1]
    /\ UNCHANGED lifeVars

\* between two calls the parameters of the layer are replaced
\* (an optimizer step, load_state_dict)
LRPUpdateWeights(w, b) ==
    /\ num.kernel = "lrp" /\ num.stage = "attributed" /\ num.ncalls < LRPMaxCalls
    /\ num' = [num EXCEPT !.layer = [w |-> w, b |-> b], !.stage = "updated"]
    /\ UNCHANGED lifeVars

LRPNext ==
    \/ \E shape \in LRPShapes, reuse \in BOOLEAN : LRPAttribute(shape, reuse)
    \/ \E w \in LRPWeights, b \in LRPBiases : LRPUpdateWeights(w, b)

SpecLRP == LRPInit /\ [][LRPNext]_vars

\* C18: after every attribute() call the quantities the rule derived in its
\* forward hooks are those derived from the layer's current weights, that
\* is, those a newly constructed rule holds after the same call.
C18_NoRuleStateAcrossCalls ==
    (num.kernel = "lrp" /\ num.stage = "attributed") =>
        num.rule = RuleForwardHooks(NewRule(num.rule.kind, num.rule.set_bias_to_zero),
                                    num.layer, num.shape)

(***************************************************************************)
(* Neuron selection of NeuronGradient and NeuronConductance: the layer     *)
(* output has shape (batch, d1, ..., dk) and the neuron is given as a      *)
(* tuple of 0-based indices.                                               *)
(***************************************************************************)
NeuronMaxRank == 3
NeuronMaxBatch == 2

NeuronDims == {1, 2}
LayerOutShapes ==
    {<<n>> \o rest : n \in 1..NeuronMaxBatch,
                     rest \in UNION {[1..r -> NeuronDims] : r \in 1..(NeuronMaxRank - 1)}}
NeuronIndices == UNION {[1..r -> 0..1] : r \in 0..NeuronMaxRank}

\* _extend_index_list(dim_max, base_index):
\* [(ind,) + base_index for ind in range(dim_max)]
ExtendIndexList(dimMax, baseIndex) ==
    [ind \in 1..dimMax |-> <<ind - 1>> \o baseIndex]

\* layer_out[index] for a tuple of integers: too many indices or an index
\* out of range raise IndexError, otherwise the shape of what is selected
TensorGetItem(shape, index) ==
    IF Len(index) > Len(shape) THEN "IndexError"
    ELSE IF \E i \in 1..Len(index) : index[i] >= shape[i] THEN "IndexError"
    ELSE SubSeq(shape, Len(index) + 1, Len(shape))

\* torch.autograd.grad([layer_out[index] for index in indices], inputs):
\* an output with more than one element raises "grad can be implicitly
\* created only for scalar outputs"
NeuronGrad(shape, neuronIndex) ==
    LET indices == ExtendIndexList(shape[1], neuronIndex)
        picked == [k \in 1..Len(indices) |-> TensorGetItem(shape, indices[k])]
    IN  IF \E k \in 1..Len(picked) : picked[k] = "IndexError" THEN "IndexError"
        ELSE IF \E k \in 1..Len(picked) : Numel(picked[k]) # 1 THEN "RuntimeError"
        ELSE "returned"

NeuronInit ==
    /\ LifeIdle
    /\ \E sh \in LayerOutShapes, ix \in NeuronIndices :
          num = [kernel |-> "neuron", shape |-> sh, neuron_index |-> ix,
                 stage |-> "drawn", algorithm |-> "none", outcome |-> "none"]

\* NeuronGradient.attribute lines 98-105
NeuronGradientAttribute ==
    /\ num.kernel = "neuron" /\ num.stage = "drawn"
    /\ num' = [num EXCEPT !.stage = "done", !.algorithm = "NeuronGradient",
                          !.outcome = NeuronGrad(num.shape, num.neuron_index)]
    /\ UNCHANGED lifeVars

\* NeuronConductance.attribute lines 166-188, on the first step of the path
\* (every step has the rows and the layer shape of the original batch)
NeuronConductanceAttribute ==
    /\ num.kernel = "neuron" /\ num.stage = "drawn"
    /\ num' = [num EXCEPT !.stage = "done", !.algorithm = "NeuronConductance",
                          !.outcome = NeuronGrad(num.shape, num.neuron_index)]
    /\ UNCHANGED lifeVars

NeuronNext == NeuronGradientAttribute \/ NeuronConductanceAttribute

SpecNeuron == NeuronInit /\ [][NeuronNext]_vars

\* errors that tell the caller the neuron index is wrong
IndexErrors == {"ConfigurationError", "IndexError"}

\* C19: NeuronGradient.attribute and NeuronConductance.attribute called with
\* a neuron_index whose length differs from the rank of the layer output
\* minus one, shorter or longer, fail with an error about the index and
\* never return attributions.
C19_IndexLengthRejected ==
    (/\ num.kernel = "neuron" /\ num.stage = "done"
     /\ Len(num.neuron_index) # Len(num.shape) - 1)
        => num.outcome \in IndexErrors

(***************************************************************************)
(* DeepLift and IntegratedGradients on a model made only of linear layers: *)
(*     h[f] = a[f] * x[f] + c      (first Linear layer)                    *)
(*     F(x) = v * sum over f of h[f]   (second Linear layer)               *)
(***************************************************************************)
LinearModels == [a : [1..IGFeat -> {-1, 2}], c : {0, 1}, v : {1, 3}]

\* the layers of the model, by class name, in forward order
LinearLayerTypes == <<"Linear", "Linear">>

\* forward_func on one row
LinearForward(model, row) ==
    RMul(R(model.v), RSum([f \in 1..IGFeat |->
                             RAdd(RMul(R(model.a[f]), row[f]), R(model.c))]))

\* the layers _register_hooks puts a backward hook on: none
HookedLinearLayers ==
    {i \in 1..Len(LinearLayerTypes) :
        ~IsContainerType(LinearLayerTypes[i]) /\ IsNonLinearType(LinearLayerTypes[i])}

\* autograd through the two layers, the chain rule on their weights
LinearGradient(model, row) ==
    [f \in 1..IGFeat |-> RMul(R(model.v), R(model.a[f]))]

\* IntegratedGradients.attribute lines 119-173 on the linear model
IGLinearAttribute(model, inputs, baselines, method, nSteps) ==
    LET stepSizes == StepSizes(method, nSteps)
        alphas == Alphas(method, nSteps)
        scaled == ScaledFeatures(inputs, baselines, alphas)
        grads == [k \in 1..(Len(scaled) * IGFeat) |->
                    LinearGradient(model, scaled[((k - 1) \div IGFeat) + 1])
                        [((k - 1) % IGFeat) + 1]]
        total == ReshapeAndSum(ScaledGrads(grads, stepSizes), nSteps,
                               Len(scaled) \div nSteps)
    IN  [e \in 1..Len(inputs) |-> [f \in 1..IGFeat |->
            RMul(total[e][f], RSub(inputs[e][f], baselines[e][f]))]]

\* gradient times the input alone, the baseline left out of the multiplier
DeepLiftLinearAttributeNoBaseline(model, inputs, baselines) ==
    [e \in 1..Len(inputs) |-> [f \in 1..IGFeat |->
        RMul(inputs[e][f], LinearGradient(model, inputs[e])[f])]]

\* DeepLift.attribute lines 140-151 on the linear model: with no hooked
\* layer gradient_func returns the ordinary gradient at the input
DeepLiftLinearAttribute(model, inputs, baselines) ==
    [e \in 1..Len(inputs) |-> [f \in 1..IGFeat |->
        RMul(RSub(inputs[e][f], baselines[e][f]), LinearGradient(model, inputs[e])[f])]]

LinearInit ==
    /\ LifeIdle
    /\ \E model \in LinearModels, rows \in IGBatches, ms \in MethodSteps :
          num = [kernel |-> "linear", model |-> model, rows |-> rows,
                 method |-> ms[1], nSteps |-> ms[2], stage |-> "drawn",
                 ig |-> <<>>, dl |-> <<>>]

\* IntegratedGradients(model).attribute(inputs, baselines, method, n_steps)
LinearIG ==
    /\ num.kernel = "linear" /\ num.stage = "drawn"
    /\ num' = [num EXCEPT
                 !.stage = "ig",
                 !.ig = IGLinearAttribute(num.model, InputOf(num.rows),
                                          BaselineOf(num.rows), num.method, num.nSteps)]
    /\ UNCHANGED lifeVars

\* DeepLift(model).attribute(inputs, baselines)
LinearDeepLift ==
    /\ num.kernel = "linear" /\ num.stage = "ig"
    /\ num' = [num EXCEPT
                 !.stage = "done",
                 !.dl = DeepLiftLinearAttribute(num.model, InputOf(num.rows),
                                                BaselineOf(num.rows))]
    /\ UNCHANGED lifeVars

LinearNext == LinearIG \/ LinearDeepLift

SpecLinear == LinearInit /\ [][LinearNext]_vars

ManipWeightVals == {-2, 0, 3}
ManipBiasVals == {-1, 0, 2}
Gammas == {Frac(1, 4), R(1)}
ManipRuleKinds == {"EpsilonRule", "GammaRule", "ZPlusRule", "FlatRule"}

\* weight: NoVal when the module has no such attribute, else <<tensor>>;
\* has_bias: hasattr(module, "bias"); bias: NoVal for None, else <<value>>
ManipModules ==
    {md \in [weight : {NoVal} \cup {<<[i \in 1..2 |-> R(t[i])]>> :
                                        t \in ManipWeightVals \X ManipWeightVals},
              has_bias : BOOLEAN,
              bias : {NoVal} \cup {<<R(b)>> : b \in ManipBiasVals}] :
        ~md.has_bias => md.bias = NoVal}

\* tensor.clamp(min=0) on one element
RClampMin0(x) == IF RLt(x, R(0)) THEN R(0) ELSE x

\* if self.set_bias_to_zero and hasattr(module, "bias"):
\*     if module.bias is not None: module.bias.data = zeros_like(...)
ZeroBias(module, wanted) ==
    IF wanted /\ module.has_bias /\ module.bias # NoVal
    THEN [module EXCEPT !.bias = <<R(0)>>]
    ELSE module

\* EpsilonRule._manipulate_weights
EpsilonManipulateWeights(rule, module) == module

\* the positive weights shrink: gamma times the clamped weight is taken off
GammaManipulateWeightsSubtract(rule, module) ==
    LET m == IF module.weight # NoVal
             THEN [module EXCEPT !.weight =
                      <<[i \in DOMAIN module.weight[1] |->
                          RSub(module.weight[1][i],
                               RMul(rule.gamma, RClampMin0(module.weight[1][i])))]>>]
             ELSE module
    IN  ZeroBias(m, rule.set_bias_to_zero)

\* GammaRule._manipulate_weights
GammaManipulateWeights(rule, module) ==
    LET m == IF module.weight # NoVal
             THEN [module EXCEPT !.weight =
                      <<[i \in DOMAIN module.weight[1] |->
                          RAdd(module.weight[1][i],
                               RMul(rule.gamma, RClampMin0(module.weight[1][i])))]>>]
             ELSE module
    IN  ZeroBias(m, rule.set_bias_to_zero)

\* ZPlusRule._manipulate_weights
ZPlusManipulateWeights(rule, module) ==
    LET m == IF module.weight # NoVal
             THEN [module EXCEPT !.weight =
                      <<[i \in DOMAIN module.weight[1] |->
                          RClampMin0(module.weight[1][i])]>>]
             ELSE module
    IN  ZeroBias(m, rule.set_bias_to_zero)

\* FlatRule._manipulate_weights: the bias first, then the weight
FlatManipulateWeights(rule, module) ==
    LET m == ZeroBias(module, TRUE)
    IN  IF m.weight # NoVal
        THEN [m EXCEPT !.weight = <<[i \in DOMAIN m.weight[1] |-> R(1)]>>]
        ELSE m

\* self._manipulate_weights(module, inputs, outputs), by the class of self
ManipulateWeights(rule, module) ==
    CASE rule.kind = "EpsilonRule" -> EpsilonManipulateWeights(rule, module)
      [] rule.kind = "GammaRule" -> GammaManipulateWeights(rule, module)
      [] rule.kind = "ZPlusRule" -> ZPlusManipulateWeights(rule, module)
      [] rule.kind = "FlatRule" -> FlatManipulateWeights(rule, module)

ManipInit ==
    /\ LifeIdle
    /\ \E k \in ManipRuleKinds, g \in Gammas, z \in BOOLEAN, md \in ManipModules :
          num = [kernel |-> "manip",
                 rule |-> [kind |-> k, gamma |-> g, set_bias_to_zero |-> z],
                 before |-> md, module |-> md, activations |-> NoVal,
                 stage |-> "idle"]

\* PropagationRule.forward_hook_weights
ForwardHookWeights(inputs) ==
    /\ num.kernel = "manip" /\ num.stage = "idle"
    /\ num' = [num EXCEPT !.activations = <<inputs>>,
                          !.module = ManipulateWeights(num.rule, num.module),
                          !.stage = "hooked"]
    /\ UNCHANGED lifeVars

ManipNext == \E x \in ManipWeightVals : ForwardHookWeights(x)

SpecManip == ManipInit /\ [][ManipNext]_vars

\* the module has a bias tensor
HasBias(module) == module.has_bias /\ module.bias # NoVal

\* C22: after the weight manipulation of a rule, every weight w of the
\* module is w + gamma * max(w, 0) under GammaRule (a positive weight grows
\* by the fraction gamma, a non-positive one is unchanged), max(w, 0) under
\* ZPlusRule and 1 under FlatRule; EpsilonRule leaves weight and bias as
\* they were; GammaRule and ZPlusRule set the bias to zero when
\* set_bias_to_zero is true and the module has a bias, and leave it as it
\* was otherwise.
C22_WeightManipulation ==
    (num.kernel = "manip" /\ num.stage = "hooked") =>
        LET k == num.rule.kind
            old == num.before
            new == num.module
        IN  /\ (old.weight = NoVal) <=> (new.weight = NoVal)
            /\ old.weight # NoVal =>
                 \A i \in DOMAIN old.weight[1] :
                    LET w == old.weight[1][i]
                        v == new.weight[1][i]
                    IN  /\ k = "GammaRule" =>
                              /\ v = RAdd(w, RMul(num.rule.gamma, RClampMin0(w)))
                              /\ RLt(R(0), w) => v = RMul(w, RAdd(R(1), num.rule.gamma))
                              /\ ~RLt(R(0), w) => v = w
                        /\ k = "ZPlusRule" => v = RClampMin0(w)
                        /\ k = "FlatRule" => v = R(1)
                        /\ k = "EpsilonRule" => v = w
            /\ k = "EpsilonRule" => new = old
            /\ k \in {"GammaRule", "ZPlusRule"} =>
                 /\ (num.rule.set_bias_to_zero /\ HasBias(old)) => new.bias = <<R(0)>>
                 /\ ~(num.rule.set_bias_to_zero /\ HasBias(old)) => new.bias = old.bias

C22_Witness ==
    /\ num.kernel = "manip" /\ num.stage = "hooked"
    /\ num.rule.kind = "GammaRule" /\ num.rule.set_bias_to_zero
    /\ num.before.weight = <<<<R(3), R(-2)>>>>
    /\ num.before.bias = <<R(2)>>
    /\ num.module.bias = <<R(0)>>
    /\ num.module.weight[1][1] # R(3)

(***************************************************************************)
(* MultiscaleFastCam.attribute.  A name is the sequence of its characters. *)
(* The model has MFCLayers layers of two channels each and maps of one     *)
(* pixel, resized to an input of 1 x MFCWidth pixels.                      *)
(***************************************************************************)
MFCLayers == 2
MFCBatch == 2
MFCWidth == 2

Uppercase == <<"A", "B", "C", "D", "E", "F", "G", "H", "I", "J", "K", "L", "M", "N", "O", "P", "Q", "R", "S", "T", "U", "V", "W", "X", "Y", "Z">>
Lowercase == <<"a", "b", "c", "d", "e", "f", "g", "h", "i", "j", "k", "l", "m", "n", "o", "p", "q", "r", "s", "t", "u", "v", "w", "x", "y", "z">>

\* the lower-case letter of every upper-case letter
LowerMap ==
    [c \in {Uppercase[k] : k \in DOMAIN Uppercase} |->
        Lowercase[CHOOSE k \in DOMAIN Uppercase : Uppercase[k] = c]]

\* str.lower() on one character
LowerChar(c) == IF c \in DOMAIN LowerMap THEN LowerMap[c] ELSE c

\* str.lower()
Lower(name) == [k \in DOMAIN name |-> LowerChar(name[k])]

ScaleSmoe == <<"s", "m", "o", "e">>
ScaleStd == <<"s", "t", "d">>
ScaleMean == <<"m", "e", "a", "n">>
ScaleMax == <<"m", "a", "x">>
ScaleNormal == <<"n", "o", "r", "m", "a", "l">>
NameIdentity == <<"i", "d", "e", "n", "t", "i", "t", "y">>
NormGamma == <<"g", "a", "m", "m", "a">>
NormGaussian == <<"g", "a", "u", "s", "s", "i", "a", "n">>

\* the scale and norm arguments of the calls
ScaleNames ==
    {<<"S", "M", "O", "E">>,
     <<"S", "t", "d">>,
     <<"M", "e", "a", "n">>,
     <<"m", "a", "x">>,
     <<"I", "d", "e", "n", "t", "i", "t", "y">>,
     <<"m", "a", "x", "x">>,
     <<>>}
NormNames ==
    {<<"g", "a", "m", "m", "a">>,
     <<"G", "a", "u", "s", "s", "i", "a", "n">>,
     <<"I", "D", "E", "N", "T", "I", "T", "Y">>,
     <<"g", "a", "u", "s", "s">>}

\* pick_scale_func compared with the name as given, without lower()
PickScaleFuncCaseSensitive(scale) ==
    IF scale \in {ScaleSmoe, ScaleStd, ScaleMean, ScaleMax, ScaleNormal, NameIdentity}
    THEN [func |-> <<scale>>, err |-> NoVal]
    ELSE [func |-> NoVal, err |-> <<"NameError">>]

\* pick_scale_func
PickScaleFunc(scale) ==
    LET name == Lower(scale)
    IN  IF name \in {ScaleSmoe, ScaleStd, ScaleMean, ScaleMax, ScaleNormal, NameIdentity}
        THEN [func |-> <<name>>, err |-> NoVal]
        ELSE [func |-> NoVal, err |-> <<"NameError">>]

\* pick_norm_func
PickNormFunc(norm) ==
    LET name == Lower(norm)
    IN  IF name \in {NormGamma, NormGaussian, NameIdentity}
        THEN [func |-> <<name>>, err |-> NoVal]
        ELSE [func |-> NoVal, err |-> <<"NameError">>]

\* weights: NoVal for None, else <<list>> with one weight per layer
MFCWeights ==
    {NoVal, <<[l \in 1..MFCLayers |-> 1]>>,
     <<[l \in 1..MFCLayers |-> IF l = MFCLayers THEN 3 ELSE 1]>>}

\* one pixel value per example
MFCInputs == UNION {[1..n -> {1, 2}] : n \in 1..MFCBatch}

\* the two channels of layer l on an example whose pixel is x
LayerActivationOf(l, x) == <<R(x + l), R(x * l)>>

\* self.layer_act.attribute(inputs, ...): one activation per layer
LayerActivations(inputs) ==
    [l \in 1..MFCLayers |-> [e \in DOMAIN inputs |-> LayerActivationOf(l, inputs[e])]]

\* the activations that can reach the scale function
ActivationVals == {LayerActivationOf(l, x) : l \in 1..MFCLayers, x \in {1, 2}}

\* values of the maps whose scale or norm is not a rational function
\* (log2, std, erf, the gamma distribution)
OpaqueVals == {R(-1), R(2)}

\* _compute_mean_scale / _compute_max_scale on the channels of one pixel
ScaleExact(func, channels) ==
    IF func = ScaleMean THEN RDiv(RSum(channels), R(Len(channels)))
    ELSE IF RLt(channels[1], channels[2]) THEN channels[2] ELSE channels[1]

\* the scale and norm functions both computed exactly
IsExact(scaleFunc, normFunc) ==
    scaleFunc \in {ScaleMean, ScaleMax} /\ normFunc = NameIdentity

\* F.interpolate(smap[i].unsqueeze(0).unsqueeze(0), size=(height, width))
\* on a map of one pixel
Interpolate(v) == [p \in 1..MFCWidth |-> v]

\* F.relu on one element
MFCRelu(x) == IF RLt(x, R(0)) THEN R(0) ELSE x

\* if not weights: weights = np.ones(len(self.layers))
EffectiveWeights(weights) ==
    IF weights = NoVal THEN [l \in 1..MFCLayers |-> R(1)]
    ELSE [l \in 1..MFCLayers |-> R(weights[1][l])]

\* lines 197-224: combined_map and weighted_maps, and the one returned
Combine(attributes, weights, combine, reluAttribution) ==
    LET bn == Len(attributes[1])
        wts == EffectiveWeights(weights)
        w(m, e) == Interpolate(attributes[m][e])
        combinedMap == [e \in 1..bn |-> [p \in 1..MFCWidth |->
                          RDiv(RSum([m \in 1..MFCLayers |-> RMul(w(m, e)[p], wts[m])]),
                               RSum(wts))]]
        weightedMaps == [e \in 1..bn |-> [m \in 1..MFCLayers |-> w(m, e)]]
    IN  IF ~combine
        THEN [e \in 1..bn |-> [m \in 1..MFCLayers |-> [p \in 1..MFCWidth |->
                IF reluAttribution THEN MFCRelu(weightedMaps[e][m][p])
                ELSE weightedMaps[e][m][p]]]]
        ELSE [e \in 1..bn |-> [p \in 1..MFCWidth |->
                IF reluAttribution THEN MFCRelu(combinedMap[e][p])
                ELSE combinedMap[e][p]]]

MFCInit ==
    /\ LifeIdle
    /\ \E sc \in ScaleNames, nm \in NormNames, wt \in MFCWeights,
          cb \in BOOLEAN, rl \in BOOLEAN, x \in MFCInputs :
          num = [kernel |-> "mfc", scale |-> sc, norm |-> nm, weights |-> wt,
                 combine |-> cb, relu_attribution |-> rl, inputs |-> x,
                 scale_func |-> NoVal, norm_func |-> NoVal, err |-> NoVal,
                 forwardRuns |-> 0, layer_attrs |-> NoVal, attributes |-> NoVal,
                 result |-> NoVal, stage |-> "idle"]

\* lines 182-183: self.scale_func, then self.norm_func
MFCPickFuncs ==
    /\ num.kernel = "mfc" /\ num.stage = "idle"
    /\ LET sf == PickScaleFunc(num.scale)
           nf == PickNormFunc(num.norm)
       IN  num' = IF sf.err # NoVal
                  THEN [num EXCEPT !.err = sf.err, !.stage = "raised"]
                  ELSE IF nf.err # NoVal
                  THEN [num EXCEPT !.scale_func = sf.func, !.err = nf.err,
                                   !.stage = "raised"]
                  ELSE [num EXCEPT !.scale_func = sf.func, !.norm_func = nf.func,
                                   !.stage = "picked"]
    /\ UNCHANGED lifeVars

\* lines 187-189: the layer activations, one forward pass of the model
MFCLayerActivation ==
    /\ num.kernel = "mfc" /\ num.stage = "picked"
    /\ num' = [num EXCEPT !.forwardRuns = @ + 1,
                          !.layer_attrs = <<LayerActivations(num.inputs)>>,
                          !.stage = "activated"]
    /\ UNCHANGED lifeVars

\* lines 190-195: scale_func, then norm_func, on every layer.  The identity
\* scale keeps both channels, which no norm function and no resize accepts.
MFCScaleNorm ==
    /\ num.kernel = "mfc" /\ num.stage = "activated"
    /\ LET acts == num.layer_attrs[1]
           maps(g) == [l \in 1..MFCLayers |-> [e \in DOMAIN acts[l] |-> g[acts[l][e]]]]
       IN  IF num.scale_func[1] = NameIdentity
           THEN num' = [num EXCEPT !.err = <<"RuntimeError">>, !.stage = "raised"]
           ELSE IF IsExact(num.scale_func[1], num.norm_func[1])
           THEN num' = [num EXCEPT
                          !.attributes =
                              <<maps([a \in ActivationVals |->
                                        ScaleExact(num.scale_func[1], a)])>>,
                          !.stage = "normed"]
           ELSE \E g \in [ActivationVals -> OpaqueVals] :
                  num' = [num EXCEPT !.attributes = <<maps(g)>>, !.stage = "normed"]
    /\ UNCHANGED lifeVars

\* lines 197-224
MFCCombine ==
    /\ num.kernel = "mfc" /\ num.stage = "normed"
    /\ num' = [num EXCEPT
                 !.result = <<Combine(num.attributes[1], num.weights, num.combine,
                                      num.relu_attribution)>>,
                 !.stage = "returned"]
    /\ UNCHANGED lifeVars

MFCNext == MFCPickFuncs \/ MFCLayerActivation \/ MFCScaleNorm \/ MFCCombine

SpecMFC == MFCInit /\ [][MFCNext]_vars

\* the upper-case letter of every lower-case letter
UpperMap ==
    [c \in {Lowercase[k] : k \in DOMAIN Lowercase} |->
        Uppercase[CHOOSE k \in DOMAIN Lowercase : Lowercase[k] = c]]

\* str.upper() on one character
UpperChar(c) == IF c \in DOMAIN UpperMap THEN UpperMap[c] ELSE c

\* name is canon written in some letter case
CaseVariant(name, canon) ==
    /\ Len(name) = Len(canon)
    /\ \A k \in DOMAIN name : name[k] = canon[k] \/ name[k] = UpperChar(canon[k])

SupportedScale(name) ==
    \E c \in {ScaleSmoe, ScaleStd, ScaleMean, ScaleMax, ScaleNormal, NameIdentity} :
        CaseVariant(name, c)

SupportedNorm(name) ==
    \E c \in {NormGamma, NormGaussian, NameIdentity} : CaseVariant(name, c)

\* C23: a call whose scale name or norm name is outside the supported sets
\* ends with an error in its first step, with no forward pass of the model
\* run and no layer activation computed; a call whose two names are
\* supported names in any letter case is not rejected for its names.
C23_UnknownNameFailsFirst ==
    (num.kernel = "mfc" /\ num.stage # "idle") =>
        /\ ~(SupportedScale(num.scale) /\ SupportedNorm(num.norm)) =>
              /\ num.stage = "raised" /\ num.err = <<"NameError">>
              /\ num.forwardRuns = 0
              /\ num.layer_attrs = NoVal /\ num.attributes = NoVal
              /\ num.result = NoVal
        /\ (SupportedScale(num.scale) /\ SupportedNorm(num.norm)) =>
              /\ num.err # <<"NameError">>
              /\ num.scale_func # NoVal /\ num.norm_func # NoVal

C23_Witness ==
    /\ num.kernel = "mfc" /\ num.stage = "raised"
    /\ num.scale = <<"S", "M", "O", "E">>
    /\ ~SupportedNorm(num.norm)
    /\ num.err = <<"NameError">>
    /\ num.forwardRuns = 0

\* the resized map of layer m for example e, times the weight of the layer
WeightedTerm(e, m) ==
    [p \in 1..MFCWidth |->
        RMul(Interpolate(num.attributes[1][m][e])[p], EffectiveWeights(num.weights)[m])]

\* C24: a call with combine=False returns, for every example, the resized
\* map of every layer multiplied by the weight of that layer, and the sum of
\* the returned maps of an example divided by the total weight is the map
\* the same call returns with combine=True.
C24_WeightedMapsReturned ==
    (num.kernel = "mfc" /\ num.stage = "returned" /\ ~num.combine) =>
        LET combined == Combine(num.attributes[1], num.weights, TRUE,
                                num.relu_attribution)
            total == RSum(EffectiveWeights(num.weights))
        IN  \A e \in DOMAIN num.inputs :
              /\ ~num.relu_attribution =>
                    \A m \in 1..MFCLayers : num.result[1][e][m] = WeightedTerm(e, m)
              /\ \A p \in 1..MFCWidth :
                    RDiv(RSum([m \in 1..MFCLayers |-> num.result[1][e][m][p]]), total)
                        = combined[e][p]

(***************************************************************************)
(* NeuronGradient against Saliency on the function of one neuron.  The     *)
(* model has two layers of two neurons each: "inner" is linear in the      *)
(* input row, "outer" squares the inner neurons; a row never depends on    *)
(* another row of the batch.                                               *)
(***************************************************************************)
MatchBatch == 2

MatchVals == {-1, 2}
MatchInputs == UNION {[1..n -> [1..IGFeat -> MatchVals]] : n \in 1..MatchBatch}
MatchLayers == {"inner", "outer"}
MatchNeurons == {<<0>>, <<1>>}

\* the weight of input feature f in inner neuron j
InnerWeight(j, f) == IF j = 1 THEN f ELSE 2 - 3 * f

\* the inner neuron j on one row
InnerNeuron(row, j) == RSum([f \in 1..IGFeat |-> RMul(R(InnerWeight(j, f)), R(row[f]))])

\* _forward_layer_eval(forward_func, inputs, layer): the layer output, one
\* row of neurons per example
ForwardLayerEval(layer, inputs) ==
    [e \in 1..Len(inputs) |-> [j \in 1..2 |->
        IF layer = "inner" THEN InnerNeuron(inputs[e], j)
        ELSE RMul(InnerNeuron(inputs[e], j), InnerNeuron(inputs[e], j))]]

\* the derivative of neuron j of the layer on one row by feature f of the row
NeuronDerivative(layer, row, j, f) ==
    IF layer = "inner" THEN R(InnerWeight(j, f))
    ELSE RMul(RMul(R(2), InnerNeuron(row, j)), R(InnerWeight(j, f)))

\* torch.autograd.grad(outputs, inputs) for the scalar outputs
\* layer_out[index], index in indices: the gradients of the outputs are
\* added up; an input that does not require grad raises RuntimeError and
\* no gradient comes back (NoVal)
AutogradGrad(layer, indices, inputs, requiresGrad) ==
    IF ~requiresGrad THEN NoVal
    ELSE [e \in 1..Len(inputs) |-> [f \in 1..IGFeat |->
            RSum([k \in 1..Len(indices) |->
                    IF indices[k][1] + 1 = e
                    THEN NeuronDerivative(layer, inputs[e], indices[k][2] + 1, f)
                    ELSE R(0)])]]

\* NeuronGradient.attribute without apply_gradient_requirements: the
\* gradient is asked for the input as the caller passed it
NeuronGradientAsPassed(layer, inputs, neuronIndex, requiresGrad) ==
    LET indices == ExtendIndexList(Len(inputs), neuronIndex)
        inputGrads == AutogradGrad(layer, indices, inputs, requiresGrad)
    IN  [attr |-> inputGrads, requires_grad |-> requiresGrad]

\* NeuronGradient.attribute lines 91-108
NeuronGradientValues(layer, inputs, neuronIndex, requiresGrad) ==
    LET gradientMask == requiresGrad
        indices == ExtendIndexList(Len(inputs), neuronIndex)
        inputGrads == AutogradGrad(layer, indices, inputs, TRUE)
    IN  [attr |-> inputGrads, requires_grad |-> gradientMask]

\* Saliency.attribute lines 85-100 on forward_func =
\* lambda x: torch.stack([_forward_layer_eval(model, x, layer)[index]
\*                        for index in _extend_index_list(x.shape[0], neuron)])
\* with target None: gradient_func differentiates every element of the
\* stacked output
SaliencyValues(layer, inputs, neuronIndex, requiresGrad, abs) ==
    LET gradientMask == requiresGrad
        indices == ExtendIndexList(Len(inputs), neuronIndex)
        gradients == AutogradGrad(layer, indices, inputs, TRUE)
        attributions == IF abs
                        THEN [e \in 1..Len(inputs) |-> [f \in 1..IGFeat |->
                                 RAbs(gradients[e][f])]]
                        ELSE gradients
    IN  [attr |-> attributions, requires_grad |-> gradientMask]

MatchInit ==
    /\ LifeIdle
    /\ \E x \in MatchInputs, l \in MatchLayers, n \in MatchNeurons, rg \in BOOLEAN :
          num = [kernel |-> "match", inputs |-> x, layer |-> l, neuron |-> n,
                 requires_grad |-> rg, abs |-> FALSE, sal |-> NoVal, ng |-> NoVal,
                 stage |-> "drawn"]

\* sal_vals = Saliency(...).attribute(test_input, abs=abs)
MatchSaliency(abs) ==
    /\ num.kernel = "match" /\ num.stage = "drawn"
    /\ LET r == SaliencyValues(num.layer, num.inputs, num.neuron, num.requires_grad, abs)
       IN  num' = [num EXCEPT !.sal = <<r.attr>>, !.requires_grad = r.requires_grad,
                              !.abs = abs, !.stage = "saliency"]
    /\ UNCHANGED lifeVars

\* grad_vals = NeuronGradient(model, layer).attribute(test_input, neuron)
MatchNeuronGradient ==
    /\ num.kernel = "match" /\ num.stage = "saliency"
    /\ LET r == NeuronGradientValues(num.layer, num.inputs, num.neuron,
                                     num.requires_grad)
       IN  num' = [num EXCEPT !.ng = <<r.attr>>, !.requires_grad = r.requires_grad,
                              !.stage = "done"]
    /\ UNCHANGED lifeVars

MatchNext == (\E abs \in BOOLEAN : MatchSaliency(abs)) \/ MatchNeuronGradient

SpecMatch == MatchInit /\ [][MatchNext]_vars

\* the value has one row per example and one entry per input feature
HasInputShape(v, inputs) ==
    /\ v # NoVal
    /\ DOMAIN v = DOMAIN inputs
    /\ \A e \in DOMAIN v : DOMAIN v[e] = DOMAIN inputs[e]

MaxApps == 2

ReuseVals == {1, 2}
ReuseKinds == {"ReLU", "Sigmoid", "Softmax"}

ReuseNoAttrs ==
    [input |-> NoVal, output |-> NoVal, input_ref |-> NoVal, output_ref |-> NoVal]

\* DeepLift._forward_hook_ref on application a of the reference pass
ReuseForwardHookRef(m, a, x) ==
    [m EXCEPT !.attrs.input_ref = <<[pass |-> "baseline", app |-> a, val |-> x]>>,
              !.attrs.output_ref = <<[pass |-> "baseline", app |-> a]>>,
              !.hooks = @ \ {"ref"},
              !.ref_handle = FALSE]

\* DeepLift._forward_hook on application a of a pass
ReuseForwardHook(m, pass, a, x) ==
    [m EXCEPT !.attrs.input = <<[pass |-> pass, app |-> a, val |-> x]>>,
              !.attrs.output = <<[pass |-> pass, app |-> a]>>]

RECURSIVE ReuseRunForward(_, _, _, _)
\* forward_func(...): applications 1..n of the module, each firing the
\* forward hooks registered at that moment, reference hook first
ReuseRunForward(m, pass, xs, n) ==
    IF n = 0 THEN m
    ELSE LET before == ReuseRunForward(m, pass, xs, n - 1)
             afterRef == IF "ref" \in before.hooks
                         THEN ReuseForwardHookRef(before, n, xs[n]) ELSE before
         IN  IF "fwd" \in afterRef.hooks
             THEN ReuseForwardHook(afterRef, pass, n, xs[n]) ELSE afterRef

\* DeepLift._backward_hook for the gradient of application a: reads the
\* four attributes (AttributeError when one is missing), deletes them
ReuseBackwardHook(m, a) ==
    IF \E n \in DOMAIN m.attrs : m.attrs[n] = NoVal
    THEN [m EXCEPT !.err = <<"AttributeError">>,
                   !.fired = Append(@, [app |-> a, attrs |-> m.attrs])]
    ELSE [m EXCEPT !.attrs = ReuseNoAttrs,
                   !.fired = Append(@, [app |-> a, attrs |-> m.attrs])]

ReuseInit ==
    /\ LifeIdle
    /\ \E k \in ReuseKinds, n \in 1..MaxApps :
         \E xs \in [1..n -> ReuseVals], rs \in [1..n -> ReuseVals] :
            num = [kernel |-> "reuse", kind |-> k, apps |-> n,
                   inputs |-> xs, baselines |-> rs,
                   hooks |-> {}, ref_handle |-> FALSE, attrs |-> ReuseNoAttrs,
                   fired |-> <<>>, err |-> NoVal, pending |-> 0, stage |-> "idle"]

\* DeepLift.attribute line 134: the reference interceptor
ReuseRegisterRef ==
    /\ num.kernel = "reuse" /\ num.stage = "idle"
    /\ IsNonLinearType(num.kind)
    /\ num' = [num EXCEPT !.hooks = @ \cup {"ref"}, !.ref_handle = TRUE,
                          !.stage = "ref_hooked"]
    /\ UNCHANGED lifeVars

\* DeepLift.attribute line 136: self.forward_func(*baselines)
ReuseReferenceForward ==
    /\ num.kernel = "reuse" /\ num.stage = "ref_hooked"
    /\ num' = [ReuseRunForward(num, "baseline", num.baselines, num.apps)
                 EXCEPT !.stage = "referenced"]
    /\ UNCHANGED lifeVars

\* DeepLift.attribute line 141: the paired interceptors
ReuseRegister ==
    /\ num.kernel = "reuse" /\ num.stage = "referenced"
    /\ num' = [num EXCEPT !.hooks = @ \cup {"fwd", "bwd"}, !.stage = "hooked"]
    /\ UNCHANGED lifeVars

\* gradient_func: the hooked forward pass
ReuseForward ==
    /\ num.kernel = "reuse" /\ num.stage = "hooked"
    /\ num' = [ReuseRunForward(num, "input", num.inputs, num.apps)
                 EXCEPT !.stage = "backward", !.pending = num.apps]
    /\ UNCHANGED lifeVars

\* gradient_func: autograd reaches the applications last to first, and the
\* backward interceptor fires for each
ReuseBackward ==
    /\ num.kernel = "reuse" /\ num.stage = "backward"
    /\ num.pending > 0
    /\ LET m == ReuseBackwardHook(num, num.pending)
       IN  num' = IF m.err # NoVal THEN [m EXCEPT !.stage = "raised"]
                  ELSE [m EXCEPT !.pending = @ - 1]
    /\ UNCHANGED lifeVars

\* DeepLift.attribute line 154
ReuseRemoveHooks ==
    /\ num.kernel = "reuse" /\ num.stage = "backward"
    /\ num.pending = 0
    /\ num' = [num EXCEPT !.hooks = @ \ {"fwd", "bwd"}, !.stage = "returned"]
    /\ UNCHANGED lifeVars

ReuseNext ==
    \/ ReuseRegisterRef
    \/ ReuseReferenceForward
    \/ ReuseRegister
    \/ ReuseForward
    \/ ReuseBackward
    \/ ReuseRemoveHooks

SpecReuse == ReuseInit /\ [][ReuseNext]_vars

\* C27: every firing of the backward interceptor finds the four snapshots
\* of the module present, and they are those of the application whose
\* gradient it rewrites: input and output from that application of the
\* hooked forward pass, input_ref and output_ref from the same application
\* of the reference pass.
C27_SnapshotsOfOwnApplication ==
    num.kernel = "reuse" =>
        \A k \in 1..Len(num.fired) :
            LET f == num.fired[k]
                own(pass, vals) == <<[pass |-> pass, app |-> f.app, val |-> vals[f.app]]>>
            IN  /\ f.attrs.input = own("input", num.inputs)
                /\ f.attrs.output = <<[pass |-> "input", app |-> f.app]>>
                /\ f.attrs.input_ref = own("baseline", num.baselines)
                /\ f.attrs.output_ref = <<[pass |-> "baseline", app |-> f.app]>>

(***************************************************************************)
(* The backward hook PropagationRule.forward_hook registers on the output  *)
(* of a layer, element by element, in exact arithmetic.                    *)
(***************************************************************************)
StabMaxLen == 2

StabFactors == {Frac(1, 1000), R(1), R(3)}
StabOutputs == {R(-3), Frac(-1, 1000), R(0), Frac(1, 1000), R(1)}
StabGrads == {R(-1), R(2)}
StabTensors ==
    UNION {[1..n -> [out : StabOutputs, grad : StabGrads]] : n \in 1..StabMaxLen}

\* torch.sign alone: 0 for a zero element
TorchSign(x) == IF RLt(x, R(0)) THEN R(-1) ELSE IF x = R(0) THEN R(0) ELSE R(1)

\* sign = torch.sign(outputs); sign[sign == 0] = 1
StabSign(x) == IF RLt(x, R(0)) THEN R(-1) ELSE IF x = R(0) THEN R(1) ELSE R(1)

\* outputs + sign * self.STABILITY_FACTOR
Divisor(output, factor) == RAdd(output, RMul(StabSign(output), factor))

\* grad / divisor on one element: NoVal when the divisor is zero
Relevance(grad, divisor) == IF divisor = R(0) THEN NoVal ELSE <<RDiv(grad, divisor)>>

StabInit ==
    /\ LifeIdle
    /\ \E sf \in StabFactors, t \in StabTensors :
          num = [kernel |-> "stab", STABILITY_FACTOR |-> sf, tensor |-> t,
                 outputs |-> NoVal, divisor |-> NoVal, relevance |-> NoVal,
                 relevance_output |-> NoVal, stage |-> "idle"]

\* PropagationRule.forward_hook: _create_backward_hook_output(outputs.data)
StabForwardHook ==
    /\ num.kernel = "stab" /\ num.stage = "idle"
    /\ num' = [num EXCEPT
                 !.outputs = <<[k \in DOMAIN num.tensor |-> num.tensor[k].out]>>,
                 !.stage = "hooked"]
    /\ UNCHANGED lifeVars

\* _backward_hook_output(grad)
StabBackwardHookOutput ==
    /\ num.kernel = "stab" /\ num.stage = "hooked"
    /\ LET outs == num.outputs[1]
           grad == [k \in DOMAIN num.tensor |-> num.tensor[k].grad]
           div == [k \in DOMAIN outs |-> Divisor(outs[k], num.STABILITY_FACTOR)]
       IN  num' = [num EXCEPT
                     !.divisor = <<div>>,
                     !.relevance = <<[k \in DOMAIN outs |-> Relevance(grad[k], div[k])]>>,
                     !.relevance_output = <<grad>>,
                     !.stage = "propagated"]
    /\ UNCHANGED lifeVars

StabNext == StabForwardHook \/ StabBackwardHookOutput

SpecStab == StabInit /\ [][StabNext]_vars

\* C28: for every element of the output, positive, negative or zero, and
\* every positive STABILITY_FACTOR, the divisor of the backward output hook
\* is not zero, its magnitude is at least STABILITY_FACTOR, it is negative
\* exactly when the output is negative, and the division yields a value.
C28_DivisorNeverZero ==
    (num.kernel = "stab" /\ num.stage = "propagated") =>
        \A k \in DOMAIN num.tensor :
            LET out == num.tensor[k].out
                div == num.divisor[1][k]
            IN  /\ div # R(0)
                /\ ~RLt(RAbs(div), num.STABILITY_FACTOR)
                /\ RLt(div, R(0)) <=> RLt(out, R(0))
                /\ num.relevance[1][k] # NoVal
                /\ num.relevance[1][k][1] = RDiv(num.tensor[k].grad, div)

C28_Witness ==
    /\ num.kernel = "stab" /\ num.stage = "propagated"
    /\ Len(num.tensor) = StabMaxLen
    /\ num.tensor[1].out = R(0)
    /\ RLt(num.tensor[2].out, R(0))
    /\ RAbs(num.tensor[2].out) = num.STABILITY_FACTOR
    /\ num.relevance[1][1] # NoVal

(***************************************************************************)
(* Conv2dSame: the padding of the two spatial dimensions and the size of   *)
(* the convolution output.                                                 *)
(***************************************************************************)
PadMax == 3

\* [i, k, s, d] of one dimension: input size, kernel size, stride, dilation
PadDims == [i : 1..PadMax, k : 1..PadMax, s : 1..PadMax, d : 1..PadMax]

\* math.ceil(i / s) for positive integers
CeilDiv(i, s) == (i + s - 1) \div s

Max(a, b) == IF a < b THEN b ELSE a

\* the padding with the dilation left out of the kernel extent
CalcSamePadNoDilation(i, k, s, d) ==
    Max((CeilDiv(i, s) - 1) * s + (k - 1) + 1 - i, 0)

\* Conv2dSame.calc_same_pad
CalcSamePad(i, k, s, d) ==
    Max((CeilDiv(i, s) - 1) * s + (k - 1) * d + 1 - i, 0)

\* F.pad amounts of one dimension: [pad // 2, pad - pad // 2]
PadAmounts(pad) == <<pad \div 2, pad - pad \div 2>>

\* F.conv2d with padding 0 on one dimension of the given size: NoVal when
\* the dilated kernel does not fit (RuntimeError)
ConvOutSize(size, k, s, d) ==
    IF d * (k - 1) + 1 > size THEN NoVal
    ELSE <<((size - d * (k - 1) - 1) \div s) + 1>>

\* Conv2dSame.forward on one dimension, given whether F.pad is called
ForwardDim(dim, pad, padded) ==
    LET amounts == IF padded THEN PadAmounts(pad) ELSE <<0, 0>>
    IN  [pad |-> pad, before |-> amounts[1], after |-> amounts[2],
         out |-> ConvOutSize(dim.i + amounts[1] + amounts[2], dim.k, dim.s, dim.d)]

PadInit ==
    /\ LifeIdle
    /\ \E h \in PadDims, w \in PadDims :
          num = [kernel |-> "pad", h |-> h, w |-> w, res_h |-> NoVal, res_w |-> NoVal,
                 stage |-> "idle"]

\* Conv2dSame.forward
Conv2dSameForward ==
    /\ num.kernel = "pad" /\ num.stage = "idle"
    /\ LET padH == CalcSamePad(num.h.i, num.h.k, num.h.s, num.h.d)
           padW == CalcSamePad(num.w.i, num.w.k, num.w.s, num.w.d)
           padded == padH > 0 \/ padW > 0
       IN  num' = [num EXCEPT !.res_h = <<ForwardDim(num.h, padH, padded)>>,
                              !.res_w = <<ForwardDim(num.w, padW, padded)>>,
                              !.stage = "done"]
    /\ UNCHANGED lifeVars

PadNext == Conv2dSameForward

SpecPad == PadInit /\ [][PadNext]_vars

\* the least n with n * s >= i
LeastCover(i, s) == CHOOSE n \in 1..i : n * s >= i /\ \A q \in 1..(n - 1) : q * s < i

\* the claim of one dimension
SamePadded(dim, res) ==
    (dim.d * (dim.k - 1) + 1 <= dim.i + res.pad) =>
        /\ res.pad >= 0
        /\ res.before + res.after = res.pad
        /\ res.before = res.pad \div 2
        /\ res.out = <<LeastCover(dim.i, dim.s)>>

\* C29: for positive input size i, kernel size k, stride s and dilation d
\* with d*(k-1)+1 <= i + p, where p is the padding calc_same_pad returns:
\* p is not negative, the amounts padded before and after are p // 2 and
\* p - p // 2 and add up to p, and the convolution output has
\* ceil(i / s) elements; in both spatial dimensions.
C29_SamePaddingOutputSize ==
    (num.kernel = "pad" /\ num.stage = "done") =>
        /\ SamePadded(num.h, num.res_h[1])
        /\ SamePadded(num.w, num.res_w[1])

C29_Witness ==
    /\ num.kernel = "pad" /\ num.stage = "done"
    /\ num.res_h[1].pad > 0 /\ num.res_h[1].before # num.res_h[1].after
    /\ num.h.d > 1 /\ num.h.k > 1 /\ num.h.s > 1
    /\ (CeilDiv(num.w.i, num.w.s) - 1) * num.w.s + (num.w.k - 1) * num.w.d + 1 < num.w.i
    /\ num.res_w[1].pad = 0

(***************************************************************************)
(* AttributionVisualizer.visualize: the loop that draws batches from the   *)
(* dataset iterator until enough outputs are collected.  An example is     *)
(* described by the label the model predicts first and its actual label.   *)
(***************************************************************************)
VisMaxBatches == 2
VisMaxCount == 2

VisExamples == {[predicted |-> <<"a">>, actual |-> "a"],
                [predicted |-> <<"b">>, actual |-> "a"],
                [predicted |-> <<"b">>, actual |-> "b"]}
VisBatches == UNION {[1..n -> VisExamples] : n \in {1, 2}}
VisDatasets == UNION {[1..n -> VisBatches] : n \in 0..VisMaxBatches}
VisConfigs ==
    [count : 0..VisMaxCount, classes : {<<>>, <<"a">>},
     prediction : {"all", "correct", "incorrect", "wrong"}]

\* _predictions_matches_labels with a list of labels
MatchesLabelList(predictedScores, labels) ==
    IF Len(predictedScores) = 0 THEN FALSE
    ELSE \E k \in DOMAIN labels : labels[k] = predictedScores[1]

\* _predictions_matches_labels with one label
MatchesLabel(predictedScores, label) ==
    IF Len(predictedScores) = 0 THEN FALSE
    ELSE label = predictedScores[1]

\* _should_keep_prediction: "keep", "drop", or "raise" for the Exception of
\* an invalid prediction config
ShouldKeepPrediction(config, predictedScores, actualLabel) ==
    IF Len(config.classes) # 0 /\ ~MatchesLabelList(predictedScores, config.classes)
    THEN "drop"
    ELSE CASE config.prediction = "all" -> "keep"
           [] config.prediction = "correct" ->
                IF ~MatchesLabel(predictedScores, actualLabel) THEN "drop" ELSE "keep"
           [] config.prediction = "incorrect" ->
                IF MatchesLabel(predictedScores, actualLabel) THEN "drop" ELSE "keep"
           [] OTHER -> "raise"

RECURSIVE BatchOutputs(_, _, _)
\* the loop of _get_outputs over the first n examples of a batch:
\* [outputs, raised]
BatchOutputs(config, batch, n) ==
    IF n = 0 THEN [outputs |-> <<>>, raised |-> FALSE]
    ELSE LET before == BatchOutputs(config, batch, n - 1)
             keep == ShouldKeepPrediction(config, batch[n].predicted, batch[n].actual)
         IN  IF before.raised THEN before
             ELSE IF keep = "raise" THEN [before EXCEPT !.raised = TRUE]
             ELSE IF keep = "drop" THEN before
             ELSE [before EXCEPT !.outputs = Append(@, batch[n])]

\* the loop continues although output_list already holds count outputs
LoopContinuesAtCount(outputList, config) == Len(outputList) <= config.count

\* while len(output_list) < self._config.count
LoopContinues(outputList, config) == Len(outputList) < config.count

VisInit ==
    /\ LifeIdle
    /\ \E ds \in VisDatasets, cf \in VisConfigs :
          num = [kernel |-> "vis", dataset |-> ds, config |-> cf,
                 output_list |-> <<>>, requested |-> 0, requestedAtCount |-> 0,
                 exhausted |-> FALSE, stage |-> "idle"]

\* visualize(): output_list = []
VisualizeBegin ==
    /\ num.kernel = "vis" /\ num.stage = "idle"
    /\ num' = [num EXCEPT !.output_list = <<>>, !.stage = "loop"]
    /\ UNCHANGED lifeVars

\* one iteration of the loop: output_list.extend(self._get_outputs()), with
\* next(self.dataset) raising StopIteration on an exhausted iterator
VisualizeGetOutputs ==
    /\ num.kernel = "vis" /\ num.stage = "loop"
    /\ LoopContinues(num.output_list, num.config)
    /\ LET full == Len(num.output_list) >= num.config.count
           asked == [num EXCEPT !.requested = @ + 1,
                                !.requestedAtCount = IF full THEN @ + 1 ELSE @]
       IN  IF num.dataset = <<>>
           THEN num' = [asked EXCEPT !.exhausted = TRUE, !.stage = "returned"]
           ELSE LET batch == Head(num.dataset)
                    res == BatchOutputs(num.config, batch, Len(batch))
                IN  num' = IF res.raised
                           THEN [asked EXCEPT !.dataset = Tail(@), !.stage = "raised"]
                           ELSE [asked EXCEPT !.dataset = Tail(@),
                                              !.output_list = @ \o res.outputs]
    /\ UNCHANGED lifeVars

\* the loop condition fails: return output_list
VisualizeReturn ==
    /\ num.kernel = "vis" /\ num.stage = "loop"
    /\ ~LoopContinues(num.output_list, num.config)
    /\ num' = [num EXCEPT !.stage = "returned"]
    /\ UNCHANGED lifeVars

VisNext == VisualizeBegin \/ VisualizeGetOutputs \/ VisualizeReturn

SpecVis == VisInit /\ [][VisNext]_vars

\* visualize() runs in one thread: a step that can be taken is taken
SpecVisFair == SpecVis /\ WF_vars(VisNext)

\* C30: visualize() ends, by returning or by raising, for every finite
\* dataset and every filter configuration; when it has returned, at least
\* count outputs are collected or the dataset iterator is exhausted; and no
\* batch is ever requested when count outputs are already collected.
C30_VisualizeTerminates ==
    /\ [](num.kernel = "vis" =>
            /\ num.stage = "returned" =>
                  (Len(num.output_list) >= num.config.count \/ num.exhausted)
            /\ num.requestedAtCount = 0
            /\ num.requested <= VisMaxBatches + 1)
    /\ <>(num.kernel = "vis" /\ num.stage \in {"returned", "raised"})

C30_Witness ==
    /\ num.kernel = "vis" /\ num.stage = "returned"
    /\ num.config.count = VisMaxCount
    /\ Len(num.output_list) >= num.config.count
    /\ num.dataset # <<>>
    /\ ~num.exhausted
    /\ num.requested = VisMaxBatches - 1

====
